---- MODULE Spec2Model ----
(***************************************************************************)
(* Verification model of the ForecastLab Python backend:                   *)
(*   python_backend/services/backtesting.py  BacktestingService            *)
(*   python_backend/services/models.py       ModelService (analysis jobs)  *)
(*   python_backend/main.py                  ModelService (task registry), *)
(*                                           FeatureEngineeringService     *)
(*   StockPredict/python_backend/services/stock_data.py                    *)
(*                                           StockDataService (cache)      *)
(*   StockPredict/python_backend/services/feature_engineering.py           *)
(*                                           FeatureEngineeringService     *)
(*                                                                         *)
(* Numbers.  Python floats are modelled as integers in fixed units; a mean *)
(* (np.mean) is kept exact as a fraction [num, den].  Dates are day        *)
(* offsets from today (0 = today); "%Y-%m-%d" strings order the same way.  *)
(* A Python dict is a sequence of entries in insertion order where the     *)
(* order is observable (backtest_results), a function otherwise.           *)
(***************************************************************************)
EXTENDS Integers, Sequences, FiniteSets, TLC

VARIABLES
    \* ---- backtesting.py: one run_backtest call ----
    bt_pc,            \* "idle" | "call" | "loop" | "returned" | "raised"
    bt_found,         \* analysis_id in analysis_results
    bt_models,        \* keys of analysis_results[analysis_id]["models"], in order
    bt_args,          \* [period, rolling_window, forecast_horizon, metrics]
    bt_failed,        \* {} or {model whose _backtest_model raised}
    bt_error,         \* NoneVal or the kind of exception run_backtest raised
    backtest_results, \* ordered dict model_name -> model_results
    bt_response,      \* the value run_backtest returned (NoneVal before)
    \* ---- backtesting.py: the helpers applied on their own ----
    st_pc,            \* "idle" | "input" | "done"  (_calculate_overall_stats)
    st_input,         \* its argument
    overall_stats,    \* its result
    rl_pc,            \* "idle" | "input" | "done"  (_calculate_rolling_accuracy)
    actual,           \* its arguments
    predicted,
    accuracy_trend,   \* its result
    \* ---- models.py: ModelService.train_models, one run per analysis ----
    HAS_TENSORFLOW,   \* whether the tensorflow import succeeded
    training_jobs,    \* analysis_id -> [status, error, models: name -> entry]
    analysis_results, \* analysis_id -> [present, models: ordered dict of results]
    tm_pc,            \* run -> "idle" | "call" | "sleep" | "done"
    tm_request,       \* run -> request.selected_models
    tm_job0,          \* run -> training_jobs[analysis_id] when the run was called
    tm_k,             \* run -> position in selected_models of the model in training
    tm_progress,      \* run -> the loop variable `progress` at the current sleep
    \* ---- main.py: the task registry and the background trainings ----
    training_tasks,   \* task_id -> [status, progress, results, error]
    tk_pc,            \* task -> "none" | "scheduled" | "loop" | "done"
    tk_input,         \* task -> the arguments of its _train_models
    tk_i,             \* task -> the loop index i of line 322
    tk_results,       \* task -> the local list `results`
    http,             \* the last response given to a caller
    \* ---- models.py: one call of generate_forecast, export_csv, export_json ----
    ex_pc,            \* "idle" | "call" | "returned" | "raised"
    ex_call,          \* [op, analysis_id, model_names, horizon, data_type]
    ex_error,         \* NoneVal or the kind of exception the call raised
    ex_response,      \* the value the call returned (NoResult before)
    \* ---- stock_data.py: StockDataService ----
    cache,            \* self.cache: cache_key -> [present, data, timestamp]
    now,              \* datetime.now(), in seconds
    provider_calls,   \* how many times stock.history was called
    sd_response,      \* the outcome of the last fetch_stock_data
    \* ---- feature_engineering.py and main.py: the two feature engines ----
    fe_input,         \* [data, preset, selected_features] given to both
    gf_response,      \* the outcome of generate_features
    gf_earlier,       \* the outcome of the call of generate_features before it
    ef_response,      \* the outcome of engineer_features
    \* ---- backtesting.py: _backtest_model called on its own ----
    bm_call,          \* [model_name, period_days, window_days, horizon_days, metrics]
    bm_response       \* the outcome of the call

btVars == <<bt_pc, bt_found, bt_models, bt_args, bt_failed, bt_error,
           backtest_results, bt_response>>
stVars == <<st_pc, st_input, overall_stats>>
rlVars == <<rl_pc, actual, predicted, accuracy_trend>>
tmVars == <<HAS_TENSORFLOW, training_jobs, analysis_results, tm_pc, tm_request,
           tm_job0, tm_k, tm_progress>>
tkVars == <<training_tasks, tk_pc, tk_input, tk_i, tk_results, http>>
exVars == <<ex_pc, ex_call, ex_error, ex_response>>
sdVars == <<cache, now, provider_calls, sd_response>>
feVars == <<fe_input, gf_response, gf_earlier, ef_response>>
bmVars == <<bm_call, bm_response>>
vars == <<btVars, stVars, rlVars, tmVars, tkVars, exVars, sdVars, feVars, bmVars>>

\* ------------------------------------------------------------------------
\* Bounds of the model
\* ------------------------------------------------------------------------
MaxPairs == 22        \* longest (actual, predicted) series given to the helper
MaxErr == 9           \* largest prediction error in a series given to the helper
MaxResults == 2       \* most models in a backtest_results given to the helper
MaxVal == 1           \* metric values given to the helper range over 0..MaxVal
MaxModels == 2        \* most stored models of the analysis being backtested
MaxSelected == 2      \* longest selected_models of a run of train_models
MaxTasks == 2         \* most tasks started through train_models_async
MaxBatch == 2         \* longest model_names of a task
MaxHorizon == 2       \* largest horizon given to generate_forecast
MaxFetches == 2       \* most provider calls of the stock data service
MaxDays == 1          \* the clock of the stock data service runs over 0..MaxDays days
MaxRows == 60         \* longest series given to the feature engines
MaxFeatures == 2      \* longest selected_features given to the feature engines

NoneVal == "None"
EmptyDict == << >>

\* ------------------------------------------------------------------------
\* Generic helpers
\* ------------------------------------------------------------------------
\* s[lo] + ... + s[hi]
RECURSIVE SumRange(_, _, _)
SumRange(s, lo, hi) ==
    IF lo > hi THEN 0
    ELSE IF lo = hi THEN s[lo]
    ELSE LET mid == (lo + hi) \div 2
         IN  SumRange(s, lo, mid) + SumRange(s, mid + 1, hi)

SumSeq(s) == SumRange(s, 1, Len(s))

Abs(x) == IF x < 0 THEN -x ELSE x

\* [k for k in 1..n if s[k] != 0]: the positions kept by "if a != 0"
NonZeroIdx(s, n) == SelectSeq([k \in 1..n |-> k], LAMBDA k : s[k] # 0)

\* Python list slice s[lo:hi] with 0 <= lo <= hi (hi clipped to len(s))
PySlice(s, lo, hi) ==
    LET h == IF hi > Len(s) THEN Len(s) ELSE hi
    IN  IF lo >= h THEN << >> ELSE SubSeq(s, lo + 1, h)

\* range(start, stop, step) for step > 0, as a sequence
PyRange(start, stop, step) ==
    LET n == IF stop <= start THEN 0 ELSE ((stop - start - 1) \div step) + 1
    IN  [k \in 1..n |-> start + (k - 1) * step]

\* ------------------------------------------------------------------------
\* backtesting.py: _calculate_rolling_accuracy
\* ------------------------------------------------------------------------
window == 7

\* abs((a - p) / a) of one pair, in thousandths
PairError(a, p) == (Abs(a - p) * 1000) \div Abs(a)

\* max(0, 1 - mape) * 100 rounded to one decimal, in tenths of a percent, for
\* one window.  np.mean([]) is nan, and max(0, 1 - nan) is 0 in Python.
WindowAccuracy(window_actual, window_predicted) ==
    LET n == IF Len(window_actual) < Len(window_predicted)
             THEN Len(window_actual) ELSE Len(window_predicted)
        idx == NonZeroIdx(window_actual, n)
        terms == [j \in 1..Len(idx) |->
                    PairError(window_actual[idx[j]], window_predicted[idx[j]])]
        mape == IF terms = << >> THEN 1000 ELSE SumSeq(terms) \div Len(terms)
    IN  IF 1000 - mape > 0 THEN 1000 - mape ELSE 0

\* The loop bounds of _calculate_rolling_accuracy: the values i takes
RollingBounds(n) == PyRange(window, n, window)

_calculate_rolling_accuracy(act, pred) ==
    LET is == RollingBounds(Len(act))
    IN  [k \in 1..Len(is) |->
            [period   |-> k,
             accuracy |-> WindowAccuracy(PySlice(act, is[k] - window, is[k]),
                                         PySlice(pred, is[k] - window, is[k])),
             end_date |-> -(Len(act) - is[k])]]

\* ------------------------------------------------------------------------
\* backtesting.py: _calculate_overall_stats
\* ------------------------------------------------------------------------
MetricNames == {"mae", "rmse", "mape", "sharpe"}

\* ErrorMetrics with "mape" forgotten
ErrorMetricsWithoutMape == {"mae", "rmse"}

\* the metrics for which "best" is the minimum (line 179)
ErrorMetrics == {"mae", "rmse", "mape"}

RECURSIVE MinOf(_)
MinOf(values) ==
    IF Len(values) = 1 THEN values[1]
    ELSE LET m == MinOf(Tail(values))
         IN  IF m < Head(values) THEN m ELSE Head(values)

RECURSIVE MaxOf(_)
MaxOf(values) ==
    IF Len(values) = 1 THEN values[1]
    ELSE LET m == MaxOf(Tail(values))
         IN  IF m > Head(values) THEN m ELSE Head(values)

\* all_metrics[metric_name]: the values appended while iterating the results
RECURSIVE CollectMetric(_, _)
CollectMetric(results, metric_name) ==
    IF results = << >> THEN << >>
    ELSE LET rest == CollectMetric(Tail(results), metric_name)
         IN  IF metric_name \in DOMAIN Head(results).metrics
             THEN <<Head(results).metrics[metric_name]>> \o rest
             ELSE rest

\* np.mean(values), exact
Mean(values) == [num |-> SumSeq(values), den |-> Len(values)]

\* min(values) if metric_name in ["mae", "rmse", "mape"] else max(values)
BestOf(metric_name, values) ==
    IF metric_name \in ErrorMetrics THEN MinOf(values) ELSE MaxOf(values)

\* key=lambda x: backtest_results[x]["metrics"].get("mape", float("inf"))
MapeKey(result) ==
    IF "mape" \in DOMAIN result.metrics
    THEN [inf |-> FALSE, v |-> result.metrics["mape"]]
    ELSE [inf |-> TRUE, v |-> 0]

\* KeyLess with <= for <: a later model with an equal key replaces the best
KeyLessOrEqual(a, b) == /\ ~a.inf
                        /\ (b.inf \/ a.v <= b.v)

\* a < b on such keys
KeyLess(a, b) == /\ ~a.inf
                 /\ (b.inf \/ a.v < b.v)

\* Python's min(iterable, key=...): the running best is replaced only by a
\* strictly smaller key, so the first minimal element is returned.
\* PyMinScan(results, k, best) scans positions k.. with `best` the index so far.
RECURSIVE PyMinScan(_, _, _)
PyMinScan(results, k, best) ==
    IF k > Len(results) THEN best
    ELSE IF KeyLess(MapeKey(results[k]), MapeKey(results[best]))
         THEN PyMinScan(results, k + 1, k)
         ELSE PyMinScan(results, k + 1, best)

BestModel(results) == results[PyMinScan(results, 2, 1)].model_name

\* min() of an empty sequence raises ValueError, which the except clause of
\* _calculate_overall_stats turns into {}.
_calculate_overall_stats(results) ==
    IF results = << >> THEN EmptyDict
    ELSE LET present == UNION {DOMAIN results[k].metrics : k \in 1..Len(results)}
         IN  [summary_metrics |->
                 [m \in present |->
                     [avg  |-> Mean(CollectMetric(results, m)),
                      best |-> BestOf(m, CollectMetric(results, m))]],
              best_model |-> BestModel(results),
              total_models |-> Len(results),
              evaluation_period |->
                 [start |-> MinOf([k \in 1..Len(results) |-> results[k].period_start]),
                  end   |-> MaxOf([k \in 1..Len(results) |-> results[k].period_end])]]

\* ------------------------------------------------------------------------
\* backtesting.py: _parse_period, _backtest_model
\* ------------------------------------------------------------------------
period_map ==
    [p \in {"1 Day", "7 Days", "30 Days", "1 Week", "2 Weeks", "1 Month",
            "2 Months", "Last 3 Months", "Last 6 Months", "Last 1 Year",
            "Last 2 Years"} |->
        CASE p = "1 Day" -> 1
          [] p = "7 Days" -> 7
          [] p = "30 Days" -> 30
          [] p = "1 Week" -> 7
          [] p = "2 Weeks" -> 14
          [] p = "1 Month" -> 30
          [] p = "2 Months" -> 60
          [] p = "Last 3 Months" -> 90
          [] p = "Last 6 Months" -> 180
          [] p = "Last 1 Year" -> 365
          [] p = "Last 2 Years" -> 730]

\* period_map.get(period_str, 30)
_parse_period(period_str) ==
    IF period_str \in DOMAIN period_map THEN period_map[period_str] ELSE 30

\* len(pd.date_range(start=now - period_days, end=now, freq='D')): both ends
\* are included, and the second now() is not earlier than the first.  A
\* start after the end gives an empty range.
DatesLen(period_days) == IF period_days < 0 THEN 0 ELSE period_days + 1

\* The generator is reseeded with np.random.seed(42) on every call, so the
\* series is one fixed table; here a fixed walk around base_price = 180.
base_price == 180
SyntheticActual(n) == [i \in 1..n |-> base_price + ((i * 7) % 11) - 5]
SyntheticError(i) == ((i * 5) % 7) - 3
SyntheticPredicted(n) == [i \in 1..n |-> SyntheticActual(n)[i] + SyntheticError(i)]

\* floor of the square root of a 32-bit x, by bisection on lo..hi
RECURSIVE ISqrtIn(_, _, _)
ISqrtIn(x, lo, hi) ==
    IF lo >= hi THEN lo
    ELSE LET mid == (lo + hi + 1) \div 2
         IN  IF mid * mid <= x THEN ISqrtIn(x, mid, hi) ELSE ISqrtIn(x, lo, mid - 1)
ISqrt(x) == ISqrtIn(x, 0, IF x > 46340 THEN 46340 ELSE x)

\* np.mean(prediction_errors), in thousandths
MaeOf(act, pred) ==
    (SumSeq([i \in 1..Len(act) |-> Abs(act[i] - pred[i])]) * 1000) \div Len(act)

\* np.sqrt(np.mean([(a - p) ** 2 ...])), in thousandths
RmseOf(act, pred) ==
    ISqrt((SumSeq([i \in 1..Len(act) |-> (act[i] - pred[i]) * (act[i] - pred[i])])
           * 1000000) \div Len(act))

\* np.mean([abs((a - p) / a) ... if a != 0]) * 100, in thousandths of a percent
MapeOf(act, pred) ==
    LET idx == NonZeroIdx(act, Len(act))
    IN  (SumSeq([j \in 1..Len(idx) |-> PairError(act[idx[j]], pred[idx[j]])]) * 100)
        \div Len(idx)

\* mean(returns) / std(returns) * sqrt(252) when len(returns) > 1 and the
\* standard deviation is positive, else 0; returns in 1/10000, result in 1/1000
SharpeOf(act) ==
    LET n == Len(act) - 1
        returns == [i \in 1..n |-> ((act[i + 1] - act[i]) * 10000) \div act[i]]
        mean == SumSeq(returns) \div n
        std == ISqrt(SumSeq([i \in 1..n |-> (returns[i] - mean) * (returns[i] - mean)])
                     \div n)
    IN  IF n > 1 /\ std > 0 THEN (mean * 15875) \div std ELSE 0

MetricOf(metric_name, act, pred) ==
    CASE metric_name = "mae" -> MaeOf(act, pred)
      [] metric_name = "rmse" -> RmseOf(act, pred)
      [] metric_name = "mape" -> MapeOf(act, pred)
      [] metric_name = "sharpe" -> SharpeOf(act)

\* _backtest_model with the rolling accuracy taken over the first window_days
\* pairs only
_backtest_model_windowed(model_name, period_days, window_days, horizon_days, metrics) ==
    LET n == DatesLen(period_days)
        actual_prices == SyntheticActual(n)
        predicted_prices == SyntheticPredicted(n)
    IN  [model_name |-> model_name,
         metrics |-> [m \in (metrics \cap MetricNames) |->
                         MetricOf(m, actual_prices, predicted_prices)],
         rolling_accuracy |->
             _calculate_rolling_accuracy(PySlice(actual_prices, 0, window_days),
                                         PySlice(predicted_prices, 0, window_days)),
         total_predictions |-> n,
         period_start |-> -period_days,
         period_end |-> 0]

\* The dict _backtest_model returns when it does not raise.  window_days and
\* horizon_days are accepted and never read.
_backtest_model(model_name, period_days, window_days, horizon_days, metrics) ==
    LET n == DatesLen(period_days)
        actual_prices == SyntheticActual(n)
        predicted_prices == SyntheticPredicted(n)
    IN  [model_name |-> model_name,
         metrics |-> [m \in (metrics \cap MetricNames) |->
                         MetricOf(m, actual_prices, predicted_prices)],
         rolling_accuracy |->
             _calculate_rolling_accuracy(actual_prices, predicted_prices),
         total_predictions |-> n,
         period_start |-> -period_days,
         period_end |-> 0]

\* ------------------------------------------------------------------------
\* Inputs
\* ------------------------------------------------------------------------
\* sequences without repetition over S, of length at most n
DistinctSeqs(S, n) ==
    UNION {{q \in [1..k -> S] : \A i, j \in 1..k : i # j => q[i] # q[j]} : k \in 0..n}

\* names under which train_models stores results
BtModelNames == {"arima", "prophet", "xgboost"}
\* period arguments: four keys of period_map and one string it does not know
PeriodArgs == {"1 Day", "7 Days", "2 Weeks", "Last 3 Months", "5 Years"}
WindowArgs == {"7 Days", "30 Days"}

BtIdle ==
    /\ bt_pc = "idle"
    /\ bt_found = FALSE
    /\ bt_models = << >>
    /\ bt_args = NoneVal
    /\ bt_failed = {}
    /\ bt_error = NoneVal
    /\ backtest_results = << >>
    /\ bt_response = NoneVal

StIdle ==
    /\ st_pc = "idle"
    /\ st_input = << >>
    /\ overall_stats = NoneVal

RlIdle ==
    /\ rl_pc = "idle"
    /\ actual = << >>
    /\ predicted = << >>
    /\ accuracy_trend = NoneVal

\* the two analyses whose runs of train_models may interleave
Runs == {1, 2}
AnalysisIds == {"a1", "a2"}

NoJob == [status |-> "absent", error |-> NoneVal, models |-> << >>]
NoResults == [present |-> FALSE, models |-> << >>]

TmIdle ==
    /\ HAS_TENSORFLOW = FALSE
    /\ training_jobs = [a \in AnalysisIds |-> NoJob]
    /\ analysis_results = [a \in AnalysisIds |-> NoResults]
    /\ tm_pc = [r \in Runs |-> "idle"]
    /\ tm_request = [r \in Runs |-> << >>]
    /\ tm_job0 = [r \in Runs |-> NoJob]
    /\ tm_k = [r \in Runs |-> 0]
    /\ tm_progress = [r \in Runs |-> 0]

\* main.py line 33, training_tasks = {}: no task yet
TaskIds == 1..MaxTasks
NoInput == [model_names |-> << >>]
NoResponse == [op |-> "none", task_id |-> 0, raised |-> 0, code |-> 0]

TkInit ==
    /\ training_tasks = << >>
    /\ tk_pc = [t \in TaskIds |-> "none"]
    /\ tk_input = [t \in TaskIds |-> NoInput]
    /\ tk_i = [t \in TaskIds |-> 0]
    /\ tk_results = [t \in TaskIds |-> << >>]
    /\ http = NoResponse

\* models.py: no call of generate_forecast, export_csv or export_json yet
NoCall == [op |-> "none"]
NoResult == [kind |-> "none"]

ExIdle ==
    /\ ex_pc = "idle"
    /\ ex_call = NoCall
    /\ ex_error = NoneVal
    /\ ex_response = NoResult

\* stock_data.py: no StockDataService in use
NoObject == [id |-> 0]
NoFetch == [op |-> "none"]

SdIdle ==
    /\ cache = NoneVal
    /\ now = 0
    /\ provider_calls = 0
    /\ sd_response = NoFetch

\* no request given to the feature engines
NoOutcome == [kind |-> "none"]

FeIdle ==
    /\ fe_input = [data |-> << >>, preset |-> NoneVal, selected_features |-> << >>]
    /\ gf_response = NoOutcome
    /\ gf_earlier = NoOutcome
    /\ ef_response = NoOutcome

\* no call of _backtest_model on its own
BmIdle ==
    /\ bm_call = NoneVal
    /\ bm_response = NoOutcome

\* ------------------------------------------------------------------------
\* backtesting.py: run_backtest
\* ------------------------------------------------------------------------
BtInit ==
    /\ bt_pc = "call"
    /\ bt_found \in BOOLEAN
    /\ bt_models \in DistinctSeqs(BtModelNames, MaxModels)
    /\ bt_args \in [period : PeriodArgs, rolling_window : WindowArgs,
                    forecast_horizon : WindowArgs, metrics : SUBSET MetricNames]
    /\ bt_failed = {}
    /\ bt_error = NoneVal
    /\ backtest_results = << >>
    /\ bt_response = NoneVal

\* lines 17-31: the lookup of the analysis, the parsing of the arguments
RunBacktestEnter ==
    /\ bt_pc = "call"
    /\ IF bt_found
       THEN /\ bt_pc' = "loop"
            /\ bt_error' = bt_error
       ELSE /\ bt_pc' = "raised"
            /\ bt_error' = "ValueError"
    /\ UNCHANGED <<bt_found, bt_models, bt_args, bt_failed, backtest_results,
                   bt_response>>
    /\ UNCHANGED <<stVars, rlVars, tmVars, tkVars, exVars, sdVars, feVars, bmVars>>

\* the model the loop of line 33 is at
BtCursor == Len(backtest_results) + 1

\* BacktestModelReturns with a period that grows with the position of the
\* model in the loop
BacktestModelReturnsByPosition ==
    /\ bt_pc = "loop"
    /\ BtCursor <= Len(bt_models)
    /\ backtest_results' =
          Append(backtest_results,
                 _backtest_model(bt_models[BtCursor],
                                 _parse_period(bt_args.period) + BtCursor - 1,
                                 _parse_period(bt_args.rolling_window),
                                 _parse_period(bt_args.forecast_horizon),
                                 bt_args.metrics))
    /\ UNCHANGED <<bt_pc, bt_found, bt_models, bt_args, bt_failed, bt_error,
                   bt_response>>
    /\ UNCHANGED <<stVars, rlVars, tmVars, tkVars, exVars, sdVars, feVars, bmVars>>

\* lines 33-45, one iteration in which _backtest_model returns
BacktestModelReturns ==
    /\ bt_pc = "loop"
    /\ BtCursor <= Len(bt_models)
    /\ backtest_results' =
          Append(backtest_results,
                 _backtest_model(bt_models[BtCursor],
                                 _parse_period(bt_args.period),
                                 _parse_period(bt_args.rolling_window),
                                 _parse_period(bt_args.forecast_horizon),
                                 bt_args.metrics))
    /\ UNCHANGED <<bt_pc, bt_found, bt_models, bt_args, bt_failed, bt_error,
                   bt_response>>
    /\ UNCHANGED <<stVars, rlVars, tmVars, tkVars, exVars, sdVars, feVars, bmVars>>

\* What run_backtest does when _backtest_model raises (lines 137-139): there
\* is no handler around the call of line 37, so the exception reaches the
\* except clause of line 63, which logs and re-raises.
OnModelError(model_name) ==
    /\ bt_pc' = "raised"
    /\ bt_failed' = {model_name}
    /\ bt_error' = "Exception"
    /\ UNCHANGED <<backtest_results, bt_response>>

\* lines 33-43 and 63-65, one iteration in which _backtest_model raises
BacktestModelRaises ==
    /\ bt_pc = "loop"
    /\ BtCursor <= Len(bt_models)
    /\ OnModelError(bt_models[BtCursor])
    /\ UNCHANGED <<bt_found, bt_models, bt_args>>
    /\ UNCHANGED <<stVars, rlVars, tmVars, tkVars, exVars, sdVars, feVars, bmVars>>

\* lines 47-61
RunBacktestReturn ==
    /\ bt_pc = "loop"
    /\ BtCursor > Len(bt_models)
    /\ bt_response' = [backtest_results |-> backtest_results,
                       overall_stats |-> _calculate_overall_stats(backtest_results),
                       parameters |-> bt_args]
    /\ bt_pc' = "returned"
    /\ UNCHANGED <<bt_found, bt_models, bt_args, bt_failed, bt_error,
                   backtest_results>>
    /\ UNCHANGED <<stVars, rlVars, tmVars, tkVars, exVars, sdVars, feVars, bmVars>>

BtNext == \/ RunBacktestEnter
          \/ BacktestModelReturns
          \/ BacktestModelRaises
          \/ RunBacktestReturn

InitBacktest == BtInit /\ StIdle /\ RlIdle /\ TmIdle /\ TkInit /\ ExIdle /\ SdIdle /\ FeIdle /\ BmIdle

SpecBacktest == InitBacktest /\ [][BtNext]_vars

\* ------------------------------------------------------------------------
\* _calculate_overall_stats applied to any backtest_results
\* ------------------------------------------------------------------------
ResultNames == <<"m1", "m2", "m3", "m4">>

PartialMetrics == UNION {[D -> 0..MaxVal] : D \in SUBSET MetricNames}

MkResult(name, ms) ==
    [model_name |-> name, metrics |-> ms, rolling_accuracy |-> << >>,
     total_predictions |-> 2, period_start |-> -1, period_end |-> 0]

StatsInputs ==
    UNION {{[i \in 1..k |-> MkResult(ResultNames[i], ms[i])] :
               ms \in [1..k -> PartialMetrics]} : k \in 0..MaxResults}

StInit ==
    /\ st_pc = "input"
    /\ st_input \in StatsInputs
    /\ overall_stats = NoneVal

CalculateOverallStats ==
    /\ st_pc = "input"
    /\ overall_stats' = _calculate_overall_stats(st_input)
    /\ st_pc' = "done"
    /\ UNCHANGED st_input
    /\ UNCHANGED <<btVars, rlVars, tmVars, tkVars, exVars, sdVars, feVars, bmVars>>

StNext == CalculateOverallStats

InitStats == StInit /\ BtIdle /\ RlIdle /\ TmIdle /\ TkInit /\ ExIdle /\ SdIdle /\ FeIdle /\ BmIdle

SpecStats == InitStats /\ [][StNext]_vars

\* ------------------------------------------------------------------------
\* _calculate_rolling_accuracy applied to any pair of aligned series
\* ------------------------------------------------------------------------
\* Series of n pairs: actual prices 100 + i, with a zero at position z when
\* z > 0, and predictions off by d.
RlInit ==
    /\ rl_pc = "input"
    /\ \E n \in 0..MaxPairs : \E z \in 0..n : \E d \in {0, MaxErr} :
          /\ actual = [i \in 1..n |-> IF i = z THEN 0 ELSE 100 + i]
          /\ predicted = [i \in 1..n |-> (IF i = z THEN 0 ELSE 100 + i) + d]
    /\ accuracy_trend = NoneVal

CalculateRollingAccuracy ==
    /\ rl_pc = "input"
    /\ accuracy_trend' = _calculate_rolling_accuracy(actual, predicted)
    /\ rl_pc' = "done"
    /\ UNCHANGED <<actual, predicted>>
    /\ UNCHANGED <<btVars, stVars, tmVars, tkVars, exVars, sdVars, feVars, bmVars>>

RlNext == CalculateRollingAccuracy

InitRolling == RlInit /\ BtIdle /\ StIdle /\ TmIdle /\ TkInit /\ ExIdle /\ SdIdle /\ FeIdle /\ BmIdle

SpecRolling == InitRolling /\ [][RlNext]_vars

\* ------------------------------------------------------------------------
\* models.py: ModelService.train_models and _train_single_model
\*
\* A run is suspended only in the asyncio.sleep of line 102; everything
\* between two sleeps is one step.  train_models indexes
\* training_jobs[analysis_id]["models"][model_name] for every selected model
\* (lines 54, 76, 101), so its caller has created the job with an entry for
\* each selected model; the job may hold entries for other models as well.
\* The metric values of a result are np.random.uniform draws and are not
\* represented.
\* ------------------------------------------------------------------------
\* model names a request may select: the four _train_single_model knows and
\* one it does not
RequestNames == {"arima", "prophet", "lstm", "svr"}
KnownModels == {"arima", "prophet", "lstm", "xgboost"}

\* request.analysis_id of run r
AnalysisIdOf(r) == IF r = 1 THEN "a1" ELSE "a2"

\* the key under which run r reads and writes training_jobs and analysis_results
JobKeyShared(r) == "a1"

JobKey(r) == AnalysisIdOf(r)

\* whether _train_single_model raises for model_name (lines 105-114, 174-175)
TrainRaises(model_name) ==
    \/ model_name \notin KnownModels
    \/ model_name = "lstm" /\ ~HAS_TENSORFLOW

\* str(e) of the exception it raises
TrainError(model_name) ==
    IF model_name \notin KnownModels THEN "Unknown model"
    ELSE "TensorFlow not available for LSTM training"

\* the dict _train_<model> returns
TrainResult(model_name) == [model_name |-> model_name, status |-> "completed"]

\* d[name] = result on an ordered dict
RECURSIVE DictSet(_, _, _)
DictSet(d, name, result) ==
    IF d = << >> THEN <<result>>
    ELSE IF Head(d).model_name = name THEN <<result>> \o Tail(d)
         ELSE <<Head(d)>> \o DictSet(Tail(d), name, result)

DictKeys(d) == {d[i].model_name : i \in 1..Len(d)}

\* lines 54-55 and 100-101 applied to every entry of the job at once
BeginTrainingAll(job, model_name) ==
    [job EXCEPT !.models = [n \in DOMAIN @ |->
                              [@[n] EXCEPT !.status = "training", !.progress = 20]]]

\* lines 54-55 and 100-101: the entry when the first sleep of a model begins
BeginTraining(job, model_name) ==
    [job EXCEPT !.models[model_name].status = "training",
                !.models[model_name].progress = 20]

\* lines 69-70
CompletedJob(job, model_name) ==
    [job EXCEPT !.models[model_name].status = "completed",
                !.models[model_name].progress = 100]

\* the handler of lines 74-77 with the status left as it was
FailedJobStatusKept(job, model_name) ==
    [job EXCEPT !.models[model_name].error = TrainError(model_name)]

\* lines 74-77
FailedJob(job, model_name) ==
    [job EXCEPT !.models[model_name].status = "failed",
                !.models[model_name].error = TrainError(model_name)]

\* lines 79-86
all_completed(job) ==
    \A n \in DOMAIN job.models : job.models[n].status \in {"completed", "failed"}

UpdateOverallStatus(job) ==
    IF all_completed(job) THEN [job EXCEPT !.status = "completed"] ELSE job

\* The loop of line 49 reaching position k with the job as given: either the
\* next model starts and the run sleeps, or the loop is over and train_models
\* returns.
LoopAt(r, job, k) ==
    IF k <= Len(tm_request[r])
    THEN /\ training_jobs' =
               [training_jobs EXCEPT ![JobKey(r)] = BeginTraining(job, tm_request[r][k])]
         /\ tm_pc' = [tm_pc EXCEPT ![r] = "sleep"]
         /\ tm_k' = [tm_k EXCEPT ![r] = k]
         /\ tm_progress' = [tm_progress EXCEPT ![r] = 20]
    ELSE /\ training_jobs' =
               [training_jobs EXCEPT ![JobKey(r)] = UpdateOverallStatus(job)]
         /\ tm_pc' = [tm_pc EXCEPT ![r] = "done"]
         /\ tm_k' = [tm_k EXCEPT ![r] = k]
         /\ tm_progress' = [tm_progress EXCEPT ![r] = 0]

\* lines 36-55, 100-102: from the call to the first sleep (or to the return)
TrainModelsEnter(r) ==
    /\ tm_pc[r] = "call"
    /\ analysis_results' =
          [analysis_results EXCEPT ![JobKey(r)] = [present |-> TRUE, models |-> << >>]]
    /\ LoopAt(r, [training_jobs[JobKey(r)] EXCEPT !.status = "training"], 1)
    /\ UNCHANGED <<HAS_TENSORFLOW, tm_request, tm_job0>>
    /\ UNCHANGED <<btVars, stVars, rlVars, tkVars, exVars, sdVars, feVars, bmVars>>

\* lines 100-102: a sleep ends and the next progress value is written
TrainSleepReturns(r) ==
    /\ tm_pc[r] = "sleep"
    /\ tm_progress[r] < 100
    /\ tm_progress' = [tm_progress EXCEPT ![r] = @ + 20]
    /\ training_jobs' =
          [training_jobs EXCEPT
              ![JobKey(r)].models[tm_request[r][tm_k[r]]].progress = tm_progress[r] + 20]
    /\ UNCHANGED <<HAS_TENSORFLOW, analysis_results, tm_pc, tm_request, tm_job0, tm_k>>
    /\ UNCHANGED <<btVars, stVars, rlVars, tkVars, exVars, sdVars, feVars, bmVars>>

\* lines 102-118 and 66-77, then the next iteration up to its first sleep or
\* lines 79-86: the last sleep of a model ends
TrainModelEnds(r) ==
    /\ tm_pc[r] = "sleep"
    /\ tm_progress[r] = 100
    /\ LET model_name == tm_request[r][tm_k[r]]
           job == training_jobs[JobKey(r)]
       IN  IF TrainRaises(model_name)
           THEN /\ analysis_results' = analysis_results
                /\ LoopAt(r, FailedJob(job, model_name), tm_k[r] + 1)
           ELSE /\ analysis_results' =
                      [analysis_results EXCEPT
                          ![JobKey(r)].models = DictSet(@, model_name, TrainResult(model_name))]
                /\ LoopAt(r, CompletedJob(job, model_name), tm_k[r] + 1)
    /\ UNCHANGED <<HAS_TENSORFLOW, tm_request, tm_job0>>
    /\ UNCHANGED <<btVars, stVars, rlVars, tkVars, exVars, sdVars, feVars, bmVars>>

\* the job as the caller creates it: an entry for each model in `names`
NewJob(names) ==
    [status |-> "queued", error |-> NoneVal,
     models |-> [n \in names |-> [status |-> "pending", progress |-> 0, error |-> NoneVal]]]

SeqsUpTo(S, n) == UNION {[1..k -> S] : k \in 0..n}
Range(q) == {q[i] : i \in 1..Len(q)}

\* One run with any request and any further entries in its job, or two runs
\* for different analyses, each with a job holding its selected models.
TmInit ==
    /\ HAS_TENSORFLOW \in BOOLEAN
    /\ analysis_results = [a \in AnalysisIds |-> NoResults]
    /\ tm_k = [r \in Runs |-> 0]
    /\ tm_progress = [r \in Runs |-> 0]
    /\ \/ /\ tm_pc = [r \in Runs |-> IF r = 1 THEN "call" ELSE "idle"]
          /\ \E q \in SeqsUpTo(RequestNames, MaxSelected) : \E extra \in SUBSET RequestNames :
                /\ tm_request = [r \in Runs |-> IF r = 1 THEN q ELSE << >>]
                /\ tm_job0 = [r \in Runs |->
                                IF r = 1 THEN NewJob(Range(q) \cup extra) ELSE NoJob]
       \/ /\ tm_pc = [r \in Runs |-> "call"]
          /\ tm_request \in [Runs -> SeqsUpTo(RequestNames \ {"prophet"}, MaxSelected)]
          /\ tm_job0 = [r \in Runs |-> NewJob(Range(tm_request[r]))]
    /\ training_jobs = [a \in AnalysisIds |->
                          IF a = "a1" THEN tm_job0[1] ELSE tm_job0[2]]

TmNext == \E r \in Runs : \/ TrainModelsEnter(r)
                          \/ TrainSleepReturns(r)
                          \/ TrainModelEnds(r)

InitTrain == TmInit /\ BtIdle /\ StIdle /\ RlIdle /\ TkInit /\ ExIdle /\ SdIdle /\ FeIdle /\ BmIdle

SpecTrain == InitTrain /\ [][TmNext]_vars

\* ------------------------------------------------------------------------
\* models.py: generate_forecast, export_csv and export_json, and
\* backtesting.py: run_backtest, each called once with an analysis_results
\* that may or may not hold the analysis_id of the call.  None of the four
\* awaits anything, so a call of the three of models.py is one step.  The
\* prices of a forecast are np.random draws and are not represented.
\* ------------------------------------------------------------------------
\* `analysis_id in analysis_results` answered yes for every id
KeyInAlways(analysis_id, results) == TRUE

\* `analysis_id in analysis_results` (models.py lines 230, 303, 349;
\* backtesting.py line 17)
KeyIn(analysis_id, results) == results[analysis_id].present

\* the keys of an ordered dict of results, in order
ModelNamesOf(models) == [i \in 1..Len(models) |-> models[i].model_name]

\* models.py line 293: predictions[-1] on an empty list raises IndexError
MockForecastRaises(horizon) == horizon <= 0

\* models.py lines 255-298: one prediction per day from today on
_generate_mock_forecast(model_name, horizon) ==
    [model_name |-> model_name,
     predictions |-> [i \in 1..horizon |-> [date |-> i - 1]]]

\* models.py lines 233-242: the loop over model_names; a name that is not a
\* stored model is skipped
RECURSIVE ForecastLoop(_, _, _, _)
ForecastLoop(model_names, stored, horizon, forecasts) ==
    IF model_names = << >> THEN forecasts
    ELSE ForecastLoop(Tail(model_names), stored, horizon,
             IF Head(model_names) \in DictKeys(stored)
             THEN DictSet(forecasts, Head(model_names),
                          _generate_mock_forecast(Head(model_names), horizon))
             ELSE forecasts)

\* `raise` reaching the caller through the except clause that logs
ExRaise(kind) ==
    /\ ex_pc' = "raised"
    /\ ex_error' = kind
    /\ UNCHANGED ex_response

ExReturn(value) ==
    /\ ex_pc' = "returned"
    /\ ex_response' = value
    /\ UNCHANGED ex_error

\* models.py lines 226-253
GenerateForecast ==
    /\ ex_pc = "call"
    /\ ex_call.op = "generate_forecast"
    /\ IF ~KeyIn(ex_call.analysis_id, analysis_results)
       THEN ExRaise("ValueError")
       ELSE LET stored == analysis_results[ex_call.analysis_id].models
            IN  IF /\ MockForecastRaises(ex_call.horizon)
                   /\ \E i \in 1..Len(ex_call.model_names) :
                         ex_call.model_names[i] \in DictKeys(stored)
                THEN ExRaise("IndexError")
                ELSE ExReturn([kind |-> "forecast",
                               analysis_id |-> ex_call.analysis_id,
                               forecasts |-> ForecastLoop(ex_call.model_names, stored,
                                                          ex_call.horizon, << >>),
                               horizon |-> ex_call.horizon])
    /\ UNCHANGED ex_call
    /\ UNCHANGED <<btVars, stVars, rlVars, tmVars, tkVars, sdVars, feVars, bmVars>>

\* models.py lines 310-322 and 329-334: the rows written to the buffer
CsvRows(data_type, stored) ==
    IF data_type = "forecast"
    THEN [k \in 1..(7 * Len(stored)) |->
             [date |-> (k - 1) % 7, model |-> stored[((k - 1) \div 7) + 1].model_name]]
    ELSE IF data_type = "metrics"
    THEN [k \in 1..Len(stored) |-> [model |-> stored[k].model_name]]
    ELSE << >>

\* models.py lines 300-344
ExportCsv ==
    /\ ex_pc = "call"
    /\ ex_call.op = "export_csv"
    /\ IF ~KeyIn(ex_call.analysis_id, analysis_results)
       THEN ExRaise("ValueError")
       ELSE ExReturn([kind |-> "csv",
                      rows |-> CsvRows(ex_call.data_type,
                                       analysis_results[ex_call.analysis_id].models)])
    /\ UNCHANGED ex_call
    /\ UNCHANGED <<btVars, stVars, rlVars, tmVars, tkVars, sdVars, feVars, bmVars>>

\* models.py lines 352-377: what export_json returns for a stored analysis
JsonOf(analysis_id, data_type, entry) ==
    IF data_type = "forecast"
    THEN [kind |-> "json", analysis_id |-> analysis_id, data_type |-> data_type,
          forecasts |-> [i \in 1..Len(entry.models) |->
                            _generate_mock_forecast(entry.models[i].model_name, 7)]]
    ELSE IF data_type = "full"
    THEN [kind |-> "json", analysis_id |-> analysis_id, data_type |-> data_type,
          results |-> entry]
    ELSE [kind |-> "entry", results |-> entry]

\* models.py lines 346-381
ExportJson ==
    /\ ex_pc = "call"
    /\ ex_call.op = "export_json"
    /\ IF ~KeyIn(ex_call.analysis_id, analysis_results)
       THEN ExRaise("ValueError")
       ELSE ExReturn(JsonOf(ex_call.analysis_id, ex_call.data_type,
                            analysis_results[ex_call.analysis_id]))
    /\ UNCHANGED ex_call
    /\ UNCHANGED <<btVars, stVars, rlVars, tmVars, tkVars, sdVars, feVars, bmVars>>

\* what train_models may have stored for an analysis (models.py line 59)
StoredDicts ==
    {[i \in 1..Len(q) |-> TrainResult(q[i])] : q \in DistinctSeqs(BtModelNames, MaxModels)}

Registries ==
    [AnalysisIds -> {NoResults} \cup {[present |-> TRUE, models |-> ms] : ms \in StoredDicts}]

MkCall(op, analysis_id, model_names, horizon, data_type) ==
    [op |-> op, analysis_id |-> analysis_id, model_names |-> model_names,
     horizon |-> horizon, data_type |-> data_type]

\* the calls: names of stored models and a name never stored, an empty
\* horizon, the data types each export knows and one it does not
ExCalls ==
    {MkCall("run_backtest", a, << >>, 0, NoneVal) : a \in AnalysisIds}
    \cup {MkCall("generate_forecast", a, q, h, NoneVal) :
             a \in AnalysisIds, q \in SeqsUpTo({"arima", "svr"}, 2), h \in 0..MaxHorizon}
    \cup {MkCall("export_csv", a, << >>, 0, t) :
             a \in AnalysisIds, t \in {"forecast", "metrics", "full"}}
    \cup {MkCall("export_json", a, << >>, 0, t) :
             a \in AnalysisIds, t \in {"forecast", "metrics", "full"}}

LookupBtArgs ==
    [period : {"1 Day", "7 Days"}, rolling_window : {"7 Days"},
     forecast_horizon : {"7 Days"}, metrics : {{"mae", "mape"}}]

InitLookup ==
    /\ analysis_results \in Registries
    /\ HAS_TENSORFLOW = FALSE
    /\ training_jobs = [a \in AnalysisIds |-> NoJob]
    /\ tm_pc = [r \in Runs |-> "idle"]
    /\ tm_request = [r \in Runs |-> << >>]
    /\ tm_job0 = [r \in Runs |-> NoJob]
    /\ tm_k = [r \in Runs |-> 0]
    /\ tm_progress = [r \in Runs |-> 0]
    /\ ex_call \in ExCalls
    /\ ex_error = NoneVal
    /\ ex_response = NoResult
    /\ IF ex_call.op = "run_backtest"
       THEN /\ ex_pc = "idle"
            /\ bt_pc = "call"
            /\ bt_found = KeyIn(ex_call.analysis_id, analysis_results)
            /\ bt_models = ModelNamesOf(analysis_results[ex_call.analysis_id].models)
            /\ bt_args \in LookupBtArgs
            /\ bt_failed = {}
            /\ bt_error = NoneVal
            /\ backtest_results = << >>
            /\ bt_response = NoneVal
       ELSE /\ ex_pc = "call"
            /\ BtIdle
    /\ StIdle /\ RlIdle /\ TkInit /\ SdIdle /\ FeIdle /\ BmIdle

LookupNext == \/ BtNext
              \/ GenerateForecast
              \/ ExportCsv
              \/ ExportJson

SpecLookup == InitLookup /\ [][LookupNext]_vars

\* ------------------------------------------------------------------------
\* main.py: ModelService.train_models_async, _train_models and the polling
\* endpoints.
\*
\* _train_models contains no await: once the event loop starts it, it runs to
\* its end before any other coroutine runs.  Its loop is modelled iteration by
\* iteration, and while a task is inside the loop no other step is enabled.
\* Task ids are uuid4 values: each call gets an id no earlier call got.
\* ------------------------------------------------------------------------
TaskModelNames == {"linear_regression", "random_forest", "arima"}
Supervised == {"linear_regression", "random_forest"}

NoList == [none |-> TRUE, items |-> << >>]
SomeList(l) == [none |-> FALSE, items |-> l]

\* a float that is the quotient of two integers
Frac(n, d) == [num |-> n, den |-> d]

\* a task id that an earlier task already has
ReusedTaskId(tasks) == 1

\* str(uuid.uuid4())
NewTaskId(tasks) == Len(tasks) + 1

NoTaskRunning == \A t \in TaskIds : tk_pc[t] # "loop"

\* lines 297-312, called from the endpoint of lines 465-477
TrainModelsAsync ==
    /\ NoTaskRunning
    /\ Len(training_tasks) < MaxTasks
    /\ \E names \in SeqsUpTo(TaskModelNames, MaxBatch) :
          LET task_id == NewTaskId(training_tasks)
              entry == [status |-> "training", progress |-> Frac(0, 1),
                        results |-> NoList, error |-> NoneVal]
          IN  /\ training_tasks' =
                    IF task_id \in DOMAIN training_tasks
                    THEN [training_tasks EXCEPT ![task_id] = entry]
                    ELSE Append(training_tasks, entry)
              /\ tk_pc' = [tk_pc EXCEPT ![task_id] = "scheduled"]
              /\ tk_input' = [tk_input EXCEPT
                                 ![task_id] = [model_names |-> names]]
              /\ tk_i' = [tk_i EXCEPT ![task_id] = 0]
              /\ tk_results' = [tk_results EXCEPT ![task_id] = << >>]
              /\ http' = [op |-> "train", task_id |-> task_id, raised |-> 0, code |-> 200]
    /\ UNCHANGED <<btVars, stVars, rlVars, tmVars, exVars, sdVars, feVars, bmVars>>

\* str(e) for the KeyError of line 318 and for an exception of the loop
DateError == "KeyError: 'date'"
ModelError == "model error"

\* lines 385-388: the except clause of _train_models
TaskFails(t) ==
    /\ training_tasks' = [training_tasks EXCEPT ![t].status = "failed",
                                                ![t].error = DateError]
    /\ tk_pc' = [tk_pc EXCEPT ![t] = "done"]

\* lines 316-320: the event loop starts the task; sort_values("date") raises
\* KeyError when the data has no date column (date_ok false)
TaskStarts(t) ==
    /\ NoTaskRunning
    /\ tk_pc[t] = "scheduled"
    /\ \E date_ok \in BOOLEAN :
       IF date_ok
       THEN /\ tk_pc' = [tk_pc EXCEPT ![t] = "loop"]
            /\ UNCHANGED training_tasks
       ELSE TaskFails(t)
    /\ UNCHANGED <<tk_input, tk_i, tk_results, http>>
    /\ UNCHANGED <<btVars, stVars, rlVars, tmVars, exVars, sdVars, feVars, bmVars>>

\* the entry appended at lines 355-365 or 369-379
TaskResult(model_name) ==
    [modelName |-> model_name,
     trainingStatus |-> IF model_name \in Supervised THEN "completed"
                        ELSE "not_implemented"]

\* lines 322-379: one iteration of the loop.  Anything the supervised branch
\* calls may raise (a feature column missing from the data, fit or predict
\* rejecting the data); the placeholder branch cannot.
TaskIterates(t) ==
    /\ tk_pc[t] = "loop"
    /\ tk_i[t] < Len(tk_input[t].model_names)
    /\ LET model_name == tk_input[t].model_names[tk_i[t] + 1]
           progressed == [training_tasks EXCEPT
                             ![t].progress = Frac(tk_i[t] * 100,
                                                  Len(tk_input[t].model_names))]
       IN  \E ok \in BOOLEAN :
              IF ok \/ model_name \notin Supervised
              THEN /\ training_tasks' = progressed
                   /\ tk_results' = [tk_results EXCEPT
                                        ![t] = Append(@, TaskResult(model_name))]
                   /\ tk_i' = [tk_i EXCEPT ![t] = @ + 1]
                   /\ UNCHANGED tk_pc
              ELSE /\ training_tasks' = [progressed EXCEPT ![t].status = "failed",
                                                          ![t].error = ModelError]
                   /\ tk_pc' = [tk_pc EXCEPT ![t] = "done"]
                   /\ UNCHANGED <<tk_results, tk_i>>
    /\ UNCHANGED <<tk_input, http>>
    /\ UNCHANGED <<btVars, stVars, rlVars, tmVars, exVars, sdVars, feVars, bmVars>>

\* TaskCompletes with the progress left as the last iteration wrote it
TaskCompletesProgressKept(t) ==
    /\ tk_pc[t] = "loop"
    /\ tk_i[t] = Len(tk_input[t].model_names)
    /\ training_tasks' = [training_tasks EXCEPT ![t].status = "completed",
                                                ![t].results = SomeList(tk_results[t])]
    /\ tk_pc' = [tk_pc EXCEPT ![t] = "done"]
    /\ UNCHANGED <<tk_input, tk_i, tk_results, http>>
    /\ UNCHANGED <<btVars, stVars, rlVars, tmVars, exVars, sdVars, feVars, bmVars>>

\* lines 381-383
TaskCompletes(t) ==
    /\ tk_pc[t] = "loop"
    /\ tk_i[t] = Len(tk_input[t].model_names)
    /\ training_tasks' = [training_tasks EXCEPT ![t].status = "completed",
                                                ![t].progress = Frac(100, 1),
                                                ![t].results = SomeList(tk_results[t])]
    /\ tk_pc' = [tk_pc EXCEPT ![t] = "done"]
    /\ UNCHANGED <<tk_input, tk_i, tk_results, http>>
    /\ UNCHANGED <<btVars, stVars, rlVars, tmVars, exVars, sdVars, feVars, bmVars>>

\* The endpoints wrap the service call in `except Exception`, which also
\* catches the HTTPException the service raised and answers 500 (lines 484,
\* 492).  `raised` is the status the service raised (0 when it returned),
\* `code` the status the caller receives.
Respond(op, task_id, raised) ==
    [op |-> op, task_id |-> task_id, raised |-> raised,
     code |-> IF raised = 0 THEN 200 ELSE 500]

\* GetTrainingStatus that finds a task only once its training has ended
GetTrainingStatusWhenEnded(task_id) ==
    /\ NoTaskRunning
    /\ http' = Respond("status", task_id,
                       IF task_id \notin DOMAIN training_tasks THEN 404
                       ELSE IF training_tasks[task_id].status = "training" THEN 404
                       ELSE 0)
    /\ UNCHANGED <<training_tasks, tk_pc, tk_input, tk_i, tk_results>>
    /\ UNCHANGED <<btVars, stVars, rlVars, tmVars, exVars, sdVars, feVars, bmVars>>

\* lines 390-394 behind the endpoint of lines 479-485
GetTrainingStatus(task_id) ==
    /\ NoTaskRunning
    /\ http' = Respond("status", task_id,
                       IF task_id \notin DOMAIN training_tasks THEN 404 ELSE 0)
    /\ UNCHANGED <<training_tasks, tk_pc, tk_input, tk_i, tk_results>>
    /\ UNCHANGED <<btVars, stVars, rlVars, tmVars, exVars, sdVars, feVars, bmVars>>

\* GetTrainingResults without the check of the status
GetTrainingResultsAnyStatus(task_id) ==
    /\ NoTaskRunning
    /\ http' = Respond("results", task_id,
                       IF task_id \notin DOMAIN training_tasks THEN 404 ELSE 0)
    /\ UNCHANGED <<training_tasks, tk_pc, tk_input, tk_i, tk_results>>
    /\ UNCHANGED <<btVars, stVars, rlVars, tmVars, exVars, sdVars, feVars, bmVars>>

\* lines 396-405 behind the endpoint of lines 487-493
GetTrainingResults(task_id) ==
    /\ NoTaskRunning
    /\ http' = Respond("results", task_id,
                       IF task_id \notin DOMAIN training_tasks THEN 404
                       ELSE IF training_tasks[task_id].status # "completed" THEN 400
                       ELSE 0)
    /\ UNCHANGED <<training_tasks, tk_pc, tk_input, tk_i, tk_results>>
    /\ UNCHANGED <<btVars, stVars, rlVars, tmVars, exVars, sdVars, feVars, bmVars>>

TaskStep(t) == TaskStarts(t) \/ TaskIterates(t) \/ TaskCompletes(t)

TkNext == \/ TrainModelsAsync
          \/ \E t \in TaskIds : TaskStarts(t)
          \/ \E t \in TaskIds : TaskIterates(t)
          \/ \E t \in TaskIds : TaskCompletes(t)
          \/ \E task_id \in TaskIds : GetTrainingStatus(task_id)
          \/ \E task_id \in TaskIds : GetTrainingResults(task_id)

InitTasks == TkInit /\ BtIdle /\ StIdle /\ RlIdle /\ TmIdle /\ ExIdle /\ SdIdle /\ FeIdle /\ BmIdle

SpecTasks == InitTasks /\ [][TkNext]_vars

\* the event loop runs every task it was given
FairSpecTasks == SpecTasks /\ \A t \in TaskIds : WF_vars(TaskStep(t))

\* ------------------------------------------------------------------------
\* The two training services side by side: either runs of train_models
\* (models.py) are in progress, or the task registry of main.py is in use.
\* ------------------------------------------------------------------------
TrainModelsInUse == \E r \in Runs : tm_pc[r] # "idle"

InitProgress == InitTrain \/ InitTasks

ProgressNext == \/ TrainModelsInUse /\ TmNext
                \/ ~TrainModelsInUse /\ TkNext

SpecProgress == InitProgress /\ [][ProgressNext]_vars

\* ------------------------------------------------------------------------
\* stock_data.py: StockDataService.fetch_stock_data and its cache
\*
\* fetch_stock_data awaits nothing, so a call is one step.  The arguments
\* that are formatted into the cache key are sequences of characters (a
\* run of characters other than "_" is kept as one element); the key is
\* their concatenation, as the f-string of line 23 builds it.  A result is
\* represented by what fetch_stock_data puts into it from its arguments
\* and by the identity of the object (the number of the provider call that
\* produced it); prices and quality figures come from the provider and are
\* not represented.
\* ------------------------------------------------------------------------
\* line 14
cache_ttl == 300

\* datetime.timedelta: seconds in a day
SecondsPerDay == 86400

\* lines 123-132
interval_map ==
    ("1 Minute" :> "1m") @@ ("5 Minutes" :> "5m") @@ ("15 Minutes" :> "15m") @@
    ("30 Minutes" :> "30m") @@ ("1 Hour" :> "1h") @@ ("1 Day" :> "1d") @@
    ("1 Week" :> "1wk") @@ ("1 Month" :> "1mo")

\* line 133: interval_map.get(interval, "1d")
_convert_interval(interval) ==
    IF interval \in DOMAIN interval_map THEN interval_map[interval] ELSE "1d"

\* line 23: f"{ticker}_{start_date}_{end_date}_{yf_interval}"
CacheKey(ticker, start_date, end_date, yf_interval) ==
    ticker \o <<"_">> \o start_date \o <<"_">> \o end_date \o <<"_">> \o <<yf_interval>>

\* The calls: one request, the same with the interval in yfinance's own
\* notation, the same with another interval, and two requests whose ticker
\* and start date hold an underscore.
MkFetch(ticker, start_date, interval) ==
    [ticker |-> ticker, start_date |-> start_date, end_date |-> <<"d2">>,
     interval |-> interval]

FetchCalls ==
    {MkFetch(<<"A">>, <<"d1">>, "1 Day"),
     MkFetch(<<"A">>, <<"d1">>, "1d"),
     MkFetch(<<"A">>, <<"d1">>, "1 Hour"),
     MkFetch(<<"A", "_", "B">>, <<"d1">>, "1 Day"),
     MkFetch(<<"A">>, <<"B", "_", "d1">>, "1 Day")}

KeyOf(call) ==
    CacheKey(call.ticker, call.start_date, call.end_date,
             _convert_interval(call.interval))

CacheKeys == {KeyOf(call) : call \in FetchCalls}

NoEntry == [present |-> FALSE, data |-> NoObject, timestamp |-> 0]

\* timedelta.seconds: the seconds field of the normalised timedelta, which
\* keeps whole days in its days field (0 <= seconds < 86400)
TimedeltaSeconds(delta) == delta % SecondsPerDay

\* _is_cached answering no for every key
NeverCached(cache_key) == FALSE

\* lines 165-171
_is_cached(cache_key) ==
    /\ cache[cache_key].present
    /\ TimedeltaSeconds(now - cache[cache_key].timestamp) < cache_ttl

\* self.cache written whatever the provider answered
CacheAfterAnyAnswer(answer, cache_key, result) ==
    [cache EXCEPT ![cache_key] = [present |-> TRUE, data |-> result, timestamp |-> now]]

\* lines 42-43 and 72-76: self.cache after the provider's answer; the
\* assignment of line 73 is reached only with a non-empty history
CacheAfter(answer, cache_key, result) ==
    IF answer = "data"
    THEN [cache EXCEPT ![cache_key] = [present |-> TRUE, data |-> result,
                                       timestamp |-> now]]
    ELSE cache

\* lines 60-70: the result built from a non-empty history
NewResult(call, id) ==
    [id |-> id, ticker |-> call.ticker,
     metadata |-> [start_date |-> call.start_date, end_date |-> call.end_date,
                   interval |-> call.interval]]

\* the exception a call ends with after the provider's answer: ValueError
\* of line 43, or whatever stock.history raised, re-raised at line 82
RaisedOn(answer) ==
    IF answer = "empty" THEN "ValueError"
    ELSE IF answer = "error" THEN "Exception"
    ELSE NoneVal

\* lines 16-82
FetchStockData(call) ==
    /\ LET cache_key == KeyOf(call)
       IN  IF _is_cached(cache_key)
           THEN /\ sd_response' = [op |-> "fetch", call |-> call, key |-> cache_key,
                                   at |-> now, provider |-> "none",
                                   raised |-> NoneVal,
                                   result |-> cache[cache_key].data]
                /\ UNCHANGED <<cache, provider_calls>>
           ELSE /\ provider_calls < MaxFetches
                /\ provider_calls' = provider_calls + 1
                /\ \E answer \in {"data", "empty", "error"} :
                      LET result == NewResult(call, provider_calls + 1)
                      IN  /\ cache' = CacheAfter(answer, cache_key, result)
                          /\ sd_response' =
                                [op |-> "fetch", call |-> call, key |-> cache_key,
                                 at |-> now, provider |-> answer,
                                 raised |-> RaisedOn(answer),
                                 result |-> IF answer = "data" THEN result
                                            ELSE NoObject]
    /\ UNCHANGED now
    /\ UNCHANGED <<btVars, stVars, rlVars, tmVars, tkVars, exVars, feVars, bmVars>>

\* the times datetime.now() takes: around the TTL, on each day
ClockSeconds == {0, 299, 300}
Times == {d * SecondsPerDay + s : d \in 0..MaxDays, s \in ClockSeconds}

\* time passes between two calls
Tick ==
    /\ \E t \in Times : t > now /\ now' = t
    /\ UNCHANGED <<cache, provider_calls, sd_response>>
    /\ UNCHANGED <<btVars, stVars, rlVars, tmVars, tkVars, exVars, feVars, bmVars>>

\* lines 12-14
SdInit ==
    /\ cache = [k \in CacheKeys |-> NoEntry]
    /\ now = 0
    /\ provider_calls = 0
    /\ sd_response = NoFetch

SdNext == \/ \E call \in FetchCalls : FetchStockData(call)
          \/ Tick

InitCache == SdInit /\ BtIdle /\ StIdle /\ RlIdle /\ TmIdle /\ TkInit /\ ExIdle /\ FeIdle /\ BmIdle

SpecCache == InitCache /\ [][SdNext]_vars

\* ------------------------------------------------------------------------
\* The two feature engines: feature_engineering.py generate_features and
\* main.py engineer_features, each applied once to the same request.
\*
\* A series is a list of records with a date and some of the OHLCV fields
\* (a field is in every record of a series or in none); dates are day
\* numbers and prices are integers.  A float of a column is a quotient of
\* two integers, or NaN.  Requests name no feature twice and name only
\* features whose computation is modelled: the price columns, the simple
\* moving averages, the constant columns and the returns; the branches that
\* call the other indicators of `ta` are left out of _generate_feature.
\* The entries of a correlation matrix are not represented, only the
\* columns it spans.
\* ------------------------------------------------------------------------
NaN == [nan |-> TRUE, num |-> 0, den |-> 1]
Num(n, d) == [nan |-> FALSE, num |-> n, den |-> d]

OHLCV == {"open", "high", "low", "close", "volume"}

\* the value of a field on day i of a series whose closes rise by one a day
\* from 100 ("linear"), stay at 100 ("flat") or repeat 101, 102, 100 ("wave")
FieldOf(c, i, shape) ==
    LET close == CASE shape = "linear" -> 99 + i
                   [] shape = "flat" -> 100
                   [] shape = "wave" -> 100 + (i % 3)
    IN  CASE c = "date" -> i
          [] c = "open" -> close - 1
          [] c = "high" -> close + 2
          [] c = "low" -> close - 2
          [] c = "close" -> close
          [] c = "volume" -> 1000 + i

MkSeries(n, shape, cols) ==
    [i \in 1..n |-> [c \in cols \cup {"date"} |-> FieldOf(c, i, shape)]]

SeriesLens == {0, 1, 20, 50, MaxRows}

SeriesInputs ==
    {MkSeries(n, shape, cols) :
        n \in SeriesLens, shape \in {"linear", "flat", "wave"},
        cols \in {OHLCV, OHLCV \ {"volume"}, OHLCV \ {"close"}}}

\* feature names of a request: a price column, a moving average, a name only
\* main.py computes, a name neither engine knows
RequestFeatures == {"close", "volume", "sma_20", "returns", "bogus"}
RequestPresets == {"custom", "basic", "macro", "advanced"}

\* df.sort_index() / df.sort_values("date"): a stable sort by date.  Row i
\* goes to the position that counts the rows with an earlier date and the
\* rows of the same date that come no later than i.
SortedPosition(data, i) ==
    Cardinality({j \in 1..Len(data) :
                    \/ data[j].date < data[i].date
                    \/ data[j].date = data[i].date /\ j <= i})

SortByDate(data) ==
    LET n == Len(data)
        pos == SubSeq([i \in 1..n |-> SortedPosition(data, i)], 1, n)
    IN  SubSeq([k \in 1..n |-> data[CHOOSE i \in 1..n : pos[i] = k]], 1, n)

\* df.columns of a non-empty frame
ColumnsOf(df) == IF df = << >> THEN {} ELSE DOMAIN df[1]

\* df[c] as integers, and as the floats of a pd.Series
IntsOf(df, c) == [i \in 1..Len(df) |-> df[i][c]]
ColumnOf(df, c) == [i \in 1..Len(df) |-> Num(df[i][c], 1)]

\* series.rolling(window).mean(), which ta.trend.sma_indicator returns as
\* well: NaN until the window is full
RollingMean(s, w) ==
    [i \in 1..Len(s) |-> IF i < w THEN NaN ELSE Num(SumRange(s, i - w + 1, i), w)]

\* series.pct_change()
PctChange(s) ==
    [i \in 1..Len(s) |-> IF i = 1 THEN NaN ELSE Num(s[i] - s[i - 1], s[i - 1])]

\* pd.Series([v] * len(df)) for v = n / d
ConstantColumn(df, n, d) == [i \in 1..Len(df) |-> Num(n, d)]

\* ---- feature_engineering.py ----
\* lines 11-17
feature_presets ==
    ("basic" :> <<"close", "volume", "sma_20">>) @@
    ("technical" :> <<"close", "rsi", "macd", "bollinger_upper", "bollinger_lower",
                      "ema_12", "ema_26">>) @@
    ("macro" :> <<"close", "gdp", "cpi", "interest_rates">>) @@
    ("fundamental" :> <<"pe_ratio", "market_cap", "close", "book_value">>) @@
    ("custom" :> << >>)

\* the names with a modelled branch in _generate_feature (lines 70-85, 126-143)
KnownFeatures ==
    OHLCV \cup {"sma_20", "sma_50", "pe_ratio", "market_cap", "book_value",
                "gdp", "cpi", "interest_rates"}

\* the columns of df a branch reads
NeededColumns(feature) ==
    IF feature \in OHLCV THEN {feature}
    ELSE IF feature \in {"sma_20", "sma_50"} THEN {"close"}
    ELSE {}

NoColumn == [none |-> TRUE, values |-> << >>]
SomeColumn(values) == [none |-> FALSE, values |-> values]

\* lines 67-151.  An unknown name returns None (lines 145-147); df[c] for a
\* column the frame does not have raises KeyError, which the except clause
\* of lines 149-151 turns into None as well.
_generate_feature(df, feature) ==
    IF feature \notin KnownFeatures THEN NoColumn
    ELSE IF ~(NeededColumns(feature) \subseteq ColumnsOf(df)) THEN NoColumn
    ELSE SomeColumn(
           CASE feature \in OHLCV -> ColumnOf(df, feature)
             [] feature = "sma_20" -> RollingMean(IntsOf(df, "close"), 20)
             [] feature = "sma_50" -> RollingMean(IntsOf(df, "close"), 50)
             [] feature = "pe_ratio" -> ConstantColumn(df, 205, 10)
             [] feature = "market_cap" -> ConstantColumn(df, 1000000000, 1)
             [] feature = "book_value" -> ConstantColumn(df, 152, 10)
             [] feature = "gdp" -> ConstantColumn(df, 21, 10)
             [] feature = "cpi" -> ConstantColumn(df, 32, 10)
             [] feature = "interest_rates" -> ConstantColumn(df, 525, 100))

\* lines 153-187, for the names _generate_feature has a modelled branch for;
\* any other name gets "Feature: <name>"
descriptions ==
    ("close" :> "Daily closing price") @@ ("volume" :> "Trading volume") @@
    ("open" :> "Daily opening price") @@ ("high" :> "Daily high price") @@
    ("low" :> "Daily low price") @@
    ("sma_20" :> "20-day Simple Moving Average") @@
    ("sma_50" :> "50-day Simple Moving Average") @@
    ("pe_ratio" :> "Price-to-Earnings Ratio") @@
    ("market_cap" :> "Market Capitalization") @@
    ("book_value" :> "Book Value per Share") @@
    ("gdp" :> "GDP Growth Rate") @@ ("cpi" :> "Consumer Price Index") @@
    ("interest_rates" :> "Central Bank Interest Rates")

_get_feature_description(feature) ==
    IF feature \in DOMAIN descriptions THEN <<descriptions[feature]>>
    ELSE <<"Feature: ", feature>>

\* features_data[name] = entry on an ordered dict
RECURSIVE FeatureSet(_, _)
FeatureSet(features_data, entry) ==
    IF features_data = << >> THEN <<entry>>
    ELSE IF Head(features_data).name = entry.name THEN <<entry>> \o Tail(features_data)
         ELSE <<Head(features_data)>> \o FeatureSet(Tail(features_data), entry)

\* lines 37-46
RECURSIVE FeatureLoop(_, _, _)
FeatureLoop(df, features_to_generate, features_data) ==
    IF features_to_generate = << >> THEN features_data
    ELSE LET feature == Head(features_to_generate)
             feature_values == _generate_feature(df, feature)
         IN  FeatureLoop(df, Tail(features_to_generate),
                 IF feature_values.none THEN features_data
                 ELSE FeatureSet(features_data,
                                 [name |-> feature, values |-> feature_values.values,
                                  description |-> _get_feature_description(feature)]))

\* lines 192-202, in hundredths
importance_scores ==
    ("close" :> 85) @@ ("volume" :> 45) @@ ("sma_20" :> 72) @@ ("rsi" :> 38) @@
    ("macd" :> 56) @@ ("bollinger_upper" :> 41) @@ ("bollinger_lower" :> 39) @@
    ("ema_12" :> 68) @@ ("ema_26" :> 65)

\* np.random.uniform(0.1, 0.9), in hundredths: the draws a call may get
RandomScores == {10, 90}

\* line 206: importance_scores.get(feature_name, np.random.uniform(0.1, 0.9))
ScoreOfDraw(feature_name, draw) == draw

ScoreOf(feature_name, draw) ==
    IF feature_name \in DOMAIN importance_scores THEN importance_scores[feature_name]
    ELSE draw

\* line 213: importance.sort(key=..., reverse=True), a stable sort that puts
\* the larger importance first
SortByImportance(importance) ==
    LET n == Len(importance)
        pos == SubSeq([i \in 1..n |->
                   Cardinality({j \in 1..n :
                       \/ importance[j].importance > importance[i].importance
                       \/ /\ importance[j].importance = importance[i].importance
                          /\ j <= i})], 1, n)
    IN  SubSeq([k \in 1..n |-> importance[CHOOSE i \in 1..n : pos[i] = k]], 1, n)

\* lines 189-214.  The default of .get() is evaluated for every feature, so
\* the k-th feature takes the k-th draw of the call whether it uses it or not.
_calculate_feature_importance(features_data, draws) ==
    SortByImportance(
        [k \in 1..Len(features_data) |->
            [feature |-> features_data[k].name,
             importance |-> ScoreOf(features_data[k].name, draws[k])]])

\* Euclid's algorithm; fractions are kept in lowest terms
RECURSIVE Gcd(_, _)
Gcd(a, b) == IF b = 0 THEN a ELSE Gcd(b, a % b)

\* A correlation coefficient r is kept exact as its sign and its square
\* num / den; NaNCorr is the NaN that corr() gives when r is undefined.
NaNCorr == [nan |-> TRUE, sign |-> 0, num |-> 0, den |-> 1]
ZeroCorr == [nan |-> FALSE, sign |-> 0, num |-> 0, den |-> 1]

\* feature_df.corr() for the columns x and y (line 229): Pearson's r over the
\* rows where both columns hold a number.  With the sums of squares and
\* products of the deviations ssqdx, ssqdy and covxy, r is
\* covxy / sqrt(ssqdx * ssqdy), and NaN when that divisor is 0, as it is for
\* a column whose values are all the same.  The values of one column share
\* one denominator, which does not change r, and the deviations are taken
\* from the first row used.
Pearson(x, y) ==
    LET n == Len(x)
        rows == {i \in 1..n : ~x[i].nan /\ ~y[i].nan}
    IN  IF rows = {} THEN NaNCorr
        ELSE
        LET first == CHOOSE i \in rows : \A j \in rows : i <= j
            nobs == Cardinality(rows)
            dx == SubSeq([i \in 1..n |-> IF i \in rows THEN x[i].num - x[first].num
                                         ELSE 0], 1, n)
            dy == SubSeq([i \in 1..n |-> IF i \in rows THEN y[i].num - y[first].num
                                         ELSE 0], 1, n)
            sx == SumSeq(dx)
            sy == SumSeq(dy)
            ssqdx == nobs * SumSeq([i \in 1..n |-> dx[i] * dx[i]]) - sx * sx
            ssqdy == nobs * SumSeq([i \in 1..n |-> dy[i] * dy[i]]) - sy * sy
            covxy == nobs * SumSeq([i \in 1..n |-> dx[i] * dy[i]]) - sx * sy
        IN  IF ssqdx = 0 \/ ssqdy = 0 THEN NaNCorr
            ELSE IF covxy = 0 THEN ZeroCorr
            ELSE LET gx == Gcd(Abs(covxy), ssqdx)
                     gy == Gcd(Abs(covxy), ssqdy)
                 IN  [nan |-> FALSE,
                      sign |-> IF covxy > 0 THEN 1 ELSE -1,
                      num |-> (Abs(covxy) \div gx) * (Abs(covxy) \div gy),
                      den |-> (ssqdx \div gx) * (ssqdy \div gy)]

\* corr_matrix.fillna(0), line 232
FillNa(r) == IF r.nan THEN ZeroCorr ELSE r

\* lines 216-240: the matrix over the features that have values, in the
\* order of features_data, as a list of rows; [] when there are none
_calculate_correlation_matrix(features_data) ==
    LET cols == SelectSeq(features_data, LAMBDA f : Len(f.values) > 0)
        k == Len(cols)
    IN  SubSeq([i \in 1..k |->
                   SubSeq([j \in 1..k |->
                              FillNa(Pearson(cols[i].values, cols[j].values))], 1, k)],
               1, k)

\* lines 22-46 and 52: the feature table without the importance list, built
\* from the sorted frame; an empty or missing series raises (line 24)
BuildFeatures(data, preset, selected_features) ==
    IF data = << >>
    THEN [kind |-> "raised", error |-> "ValueError"]
    ELSE LET df == SortByDate(data)
             features_to_generate ==
                 IF preset = "custom" THEN selected_features
                 ELSE IF preset \in DOMAIN feature_presets THEN feature_presets[preset]
                 ELSE << >>
             features_data == FeatureLoop(df, features_to_generate, << >>)
         IN  [kind |-> "returned",
              features |-> features_data,
              correlation_matrix |-> _calculate_correlation_matrix(features_data),
              selected_features |-> features_to_generate]

\* the random numbers one call draws at line 206, one per feature
DrawsFor(built) ==
    IF built.kind = "raised" THEN {<< >>}
    ELSE [1..Len(built.features) -> RandomScores]

\* line 49 and the response of lines 54-61; "ticker" is echoed and
\* "generated_at" is the time of the call
WithImportance(built, draws) ==
    IF built.kind = "raised" THEN built
    ELSE [kind |-> "returned",
          features |-> built.features,
          feature_importance |-> _calculate_feature_importance(built.features, draws),
          correlation_matrix |-> built.correlation_matrix,
          selected_features |-> built.selected_features]

\* lines 19-65, for the random numbers the call draws
generate_features(data, preset, selected_features, draws) ==
    WithImportance(BuildFeatures(data, preset, selected_features), draws)

\* a call with the request's arguments
GenerateFeatures ==
    /\ gf_response = NoOutcome
    /\ \E built \in {BuildFeatures(fe_input.data, fe_input.preset,
                                     fe_input.selected_features)} :
          \E draws \in DrawsFor(built) :
             gf_response' = WithImportance(built, draws)
    /\ UNCHANGED <<fe_input, gf_earlier, ef_response>>
    /\ UNCHANGED <<btVars, stVars, rlVars, tmVars, tkVars, exVars, sdVars, bmVars>>

\* a second call with the same arguments; the outcome of the first is kept
GenerateFeaturesAgain ==
    /\ gf_response # NoOutcome
    /\ gf_earlier = NoOutcome
    /\ \E built \in {BuildFeatures(fe_input.data, fe_input.preset,
                                     fe_input.selected_features)} :
          \E draws \in DrawsFor(built) :
             gf_response' = WithImportance(built, draws)
    /\ gf_earlier' = gf_response
    /\ UNCHANGED <<fe_input, ef_response>>
    /\ UNCHANGED <<btVars, stVars, rlVars, tmVars, tkVars, exVars, sdVars, bmVars>>

\* ---- main.py ----
\* line 192: the names that switch the technical block on, and the columns
\* lines 194-217 add
TechnicalNames == {"sma_20", "sma_50", "ema_12", "ema_26", "rsi", "macd"}
TechnicalColumns == TechnicalNames \cup {"bb_upper", "bb_lower"}

\* line 220, and the columns lines 221-225 add
AdvancedNames == {"returns", "log_returns", "volatility", "momentum"}
AdvancedColumns == AdvancedNames \cup {"price_change_pct"}

AddsTechnical(preset, selected_features) ==
    \/ preset \in {"technical", "advanced"}
    \/ \E i \in 1..Len(selected_features) : selected_features[i] \in TechnicalNames

AddsAdvanced(preset, selected_features) ==
    \/ preset = "advanced"
    \/ \E i \in 1..Len(selected_features) : selected_features[i] \in AdvancedNames

\* lines 202-206: rsi in row i is NaN until the 14-row window is full, and
\* where the window holds no price change at all (gain and loss are both 0
\* and rs is 0/0); with gains and no loss rs is inf and rsi is 100
RsiIsNaN(close, i) ==
    \/ i < 14
    \/ \A j \in (i - 13)..i : j = 1 \/ close[j] = close[j - 1]

\* whether row i holds a NaN in a column the blocks added: sma_50 (and
\* sma_20, the Bollinger bands) and rsi for the technical block; volatility,
\* the 20-row std of returns whose first row is NaN (and returns,
\* log_returns, momentum) for the advanced block
RowHasNaN(close, i, technical, advanced) ==
    \/ technical /\ (i < 50 \/ RsiIsNaN(close, i))
    \/ advanced /\ i < 21

\* line 228: the rows features_data.dropna() keeps, in order
KeptRows(df, technical, advanced) ==
    SelectSeq([i \in 1..Len(df) |-> i],
              LAMBDA i : ~RowHasNaN(IntsOf(df, "close"), i, technical, advanced))

\* a column of features_data before line 228, for the names requests hold
EngineeredColumn(df, feature) ==
    CASE feature \in ColumnsOf(df) -> ColumnOf(df, feature)
      [] feature = "sma_20" -> RollingMean(IntsOf(df, "close"), 20)
      [] feature = "sma_50" -> RollingMean(IntsOf(df, "close"), 50)
      [] feature = "returns" -> PctChange(IntsOf(df, "close"))

\* features_data.columns after lines 189-225
EngineeredColumns(data, preset, selected_features) ==
    ColumnsOf(data)
    \cup (IF AddsTechnical(preset, selected_features) THEN TechnicalColumns ELSE {})
    \cup (IF AddsAdvanced(preset, selected_features) THEN AdvancedColumns ELSE {})

\* lines 231-238; the importance is a random number
FeatureList(df, columns, kept, selected_features) ==
    LET known == SelectSeq(selected_features, LAMBDA f : f \in columns)
    IN  [k \in 1..Len(known) |->
            [name |-> known[k],
             values |-> [r \in 1..Len(kept) |-> EngineeredColumn(df, known[k])[kept[r]]]]]

\* lines 181-252.  pd.DataFrame([]) has no columns, so df["date"] raises
\* KeyError for an empty list as for records without a date; the blocks
\* read "close" and "open"; features_data[selected_features] of line 241
\* raises KeyError when a selected name is not a column.  Every exception
\* is logged and re-raised (lines 250-252).
engineer_features(data, preset, selected_features) ==
    LET technical == AddsTechnical(preset, selected_features)
        advanced == AddsAdvanced(preset, selected_features)
        KeyError == [kind |-> "raised", error |-> "KeyError"]
    IN  IF "date" \notin ColumnsOf(data) THEN KeyError
        ELSE IF (technical \/ advanced) /\ "close" \notin ColumnsOf(data) THEN KeyError
        ELSE IF advanced /\ "open" \notin ColumnsOf(data) THEN KeyError
        ELSE LET df == SortByDate(data)
                 columns == EngineeredColumns(data, preset, selected_features)
                 kept == KeptRows(df, technical, advanced)
             IN  IF \E i \in 1..Len(selected_features) : selected_features[i] \notin columns
                 THEN KeyError
                 ELSE [kind |-> "returned",
                       features |-> FeatureList(df, columns, kept, selected_features),
                       correlationMatrix |-> [columns |-> selected_features],
                       selectedFeatures |-> selected_features]

EngineerFeatures ==
    /\ ef_response = NoOutcome
    /\ ef_response' = engineer_features(fe_input.data, fe_input.preset,
                                        fe_input.selected_features)
    /\ UNCHANGED <<fe_input, gf_response, gf_earlier>>
    /\ UNCHANGED <<btVars, stVars, rlVars, tmVars, tkVars, exVars, sdVars, bmVars>>

FeInit ==
    /\ fe_input \in [data : SeriesInputs, preset : RequestPresets,
                     selected_features : DistinctSeqs(RequestFeatures, MaxFeatures)]
    /\ gf_response = NoOutcome
    /\ gf_earlier = NoOutcome
    /\ ef_response = NoOutcome

FeNext == GenerateFeatures \/ EngineerFeatures

InitFeatures == FeInit /\ BtIdle /\ StIdle /\ RlIdle /\ TmIdle /\ TkInit /\ ExIdle /\ SdIdle /\ BmIdle

SpecFeatures == InitFeatures /\ [][FeNext]_vars

\* ---- generate_features called twice with the same arguments ----
\* feature lists with names inside and outside the importance table
RepeatRequests ==
    {<< >>, <<"close", "gdp">>, <<"gdp", "close">>, <<"open", "sma_20">>,
     <<"bogus", "volume">>}

RepeatInit ==
    /\ fe_input \in [data : SeriesInputs, preset : {"custom", "basic", "macro"},
                     selected_features : RepeatRequests]
    /\ gf_response = NoOutcome
    /\ gf_earlier = NoOutcome
    /\ ef_response = NoOutcome

RepeatNext == GenerateFeatures \/ GenerateFeaturesAgain

InitRepeat == RepeatInit /\ BtIdle /\ StIdle /\ RlIdle /\ TmIdle /\ TkInit /\ ExIdle /\ SdIdle /\ BmIdle

SpecRepeat == InitRepeat /\ [][RepeatNext]_vars

\* ------------------------------------------------------------------------
\* backtesting.py: _backtest_model called on its own, for any period_days
\* ------------------------------------------------------------------------
\* lines 102-122 for an empty dates: actual_prices and predicted_prices are
\* empty, np.mean([]) is nan (numpy warns and does not raise), so mae, rmse
\* and mape are nan; returns is empty and sharpe is set to 0 (line 121)
EmptyMetric(metric_name) == IF metric_name = "sharpe" THEN Num(0, 1) ELSE NaN

\* lines 67-139.  With an empty dates, dates[0] at line 131 raises
\* IndexError after the metrics were computed; the except clause of lines
\* 137-139 logs and re-raises.  metrics_results is the dict of lines 102-122
\* (values in thousandths).
BacktestModelCall(model_name, period_days, window_days, horizon_days, metrics) ==
    IF DatesLen(period_days) = 0
    THEN [kind |-> "raised", error |-> "IndexError",
          metrics_results |-> [m \in (metrics \cap MetricNames) |-> EmptyMetric(m)]]
    ELSE LET result == _backtest_model(model_name, period_days, window_days,
                                       horizon_days, metrics)
         IN  [kind |-> "returned", result |-> result,
              metrics_results |-> [m \in DOMAIN result.metrics |->
                                      Num(result.metrics[m], 1000)]]

\* period_days below, at and above the length of one rolling window
PeriodDays == {-2, -1, 0, 1, 7, 14, 21}
WindowDays == {7, 30}

BacktestModel ==
    /\ bm_response = NoOutcome
    /\ bm_response' = BacktestModelCall(bm_call.model_name, bm_call.period_days,
                                        bm_call.window_days, bm_call.horizon_days,
                                        bm_call.metrics)
    /\ UNCHANGED bm_call
    /\ UNCHANGED <<btVars, stVars, rlVars, tmVars, tkVars, exVars, sdVars, feVars>>

BmInit ==
    /\ bm_call \in [model_name : BtModelNames, period_days : PeriodDays,
                    window_days : WindowDays, horizon_days : WindowDays,
                    metrics : SUBSET MetricNames]
    /\ bm_response = NoOutcome

BmNext == BacktestModel

InitModel == BmInit /\ BtIdle /\ StIdle /\ RlIdle /\ TmIdle /\ TkInit /\ ExIdle /\ SdIdle /\ FeIdle

SpecModel == InitModel /\ [][BmNext]_vars

\* ========================================================================
\* Properties
\* ========================================================================

\* C1: when the evaluation of one model of the analysis raises while another
\* model of the same run was evaluated successfully, run_backtest does not
\* raise: it goes on and returns a result whose aggregate stats are computed
\* over the successfully evaluated models.
C1_PartialFailureStillReturns ==
    (bt_failed # {} /\ backtest_results # << >>) =>
        /\ bt_pc \in {"loop", "returned"}
        /\ bt_error = NoneVal
        /\ bt_pc = "returned" =>
              bt_response.overall_stats = _calculate_overall_stats(backtest_results)

HasMape(r) == "mape" \in DOMAIN r.metrics

\* C4: when at least one backtest result reports "mape", best_model is the
\* model with the minimum "mape" among the results, and among several models
\* with that minimum it is the one that comes first in iteration order.
C4_BestModelIsFirstMinMape ==
    (st_pc = "done" /\ \E k \in 1..Len(st_input) : HasMape(st_input[k])) =>
        \E b \in 1..Len(st_input) :
            /\ overall_stats.best_model = st_input[b].model_name
            /\ HasMape(st_input[b])
            /\ \A k \in 1..Len(st_input) :
                  HasMape(st_input[k]) =>
                     st_input[b].metrics["mape"] <= st_input[k].metrics["mape"]
            /\ \A k \in 1..(b - 1) :
                  HasMape(st_input[k]) =>
                     st_input[k].metrics["mape"] > st_input[b].metrics["mape"]

\* two models share the minimum mape and the first of them is returned
C4_Witness ==
    /\ st_pc = "done"
    /\ Len(st_input) >= 2
    /\ HasMape(st_input[1]) /\ HasMape(st_input[2])
    /\ st_input[1].metrics["mape"] = st_input[2].metrics["mape"]
    /\ overall_stats.best_model = st_input[1].model_name

\* the positions of the results that report metric m
Reporting(m) == {k \in 1..Len(st_input) : m \in DOMAIN st_input[k].metrics}

RECURSIVE SumOver(_, _)
SumOver(K, m) ==
    IF K = {} THEN 0
    ELSE LET k == CHOOSE x \in K : TRUE
         IN  st_input[k].metrics[m] + SumOver(K \ {k}, m)

\* C5: for every metric name that appears in at least one result, avg_<metric>
\* is the mean of the metric over the models that report it, and best_<metric>
\* is the minimum of those values for mae, rmse and mape and the maximum for
\* any other metric.
C5_AvgAndBestPerMetric ==
    (st_pc = "done" /\ st_input # << >>) =>
        /\ DOMAIN overall_stats.summary_metrics =
              {m \in MetricNames : Reporting(m) # {}}
        /\ \A m \in DOMAIN overall_stats.summary_metrics :
              LET e == overall_stats.summary_metrics[m]
              IN  /\ e.avg.den = Cardinality(Reporting(m))
                  /\ e.avg.num = SumOver(Reporting(m), m)
                  /\ \E k \in Reporting(m) : e.best = st_input[k].metrics[m]
                  /\ \A k \in Reporting(m) :
                        IF m \in {"mae", "rmse", "mape"}
                        THEN e.best <= st_input[k].metrics[m]
                        ELSE e.best >= st_input[k].metrics[m]

\* two models that differ in an error metric and in sharpe: the best error is
\* the smaller value, the best sharpe the larger one
C5_Witness ==
    /\ st_pc = "done"
    /\ Len(st_input) = 2
    /\ Reporting("mape") = {1, 2} /\ Reporting("sharpe") = {1, 2}
    /\ st_input[1].metrics["mape"] < st_input[2].metrics["mape"]
    /\ st_input[1].metrics["sharpe"] < st_input[2].metrics["sharpe"]
    /\ overall_stats.summary_metrics["mape"].best = st_input[1].metrics["mape"]
    /\ overall_stats.summary_metrics["sharpe"].best = st_input[2].metrics["sharpe"]
    /\ overall_stats.summary_metrics["mape"].avg.den = 2

\* C6: over N pairs the result has one entry for every complete window
\* [7k, 7k+7) with 7k+7 <= N, in ascending order, each computed from exactly
\* the 7 pairs of its window; only a trailing window of fewer than 7 pairs is
\* dropped.
C6_EveryCompleteWindowReported ==
    rl_pc = "done" =>
        /\ Len(accuracy_trend) = Len(actual) \div 7
        /\ \A k \in 1..Len(accuracy_trend) :
              /\ accuracy_trend[k].period = k
              /\ accuracy_trend[k].accuracy =
                    WindowAccuracy(SubSeq(actual, 7 * (k - 1) + 1, 7 * k),
                                   SubSeq(predicted, 7 * (k - 1) + 1, 7 * k))

Terminal == {"completed", "failed"}

\* the job entry of model n in the job of run r
EntryOf(r, n) == training_jobs[AnalysisIdOf(r)].models[n]
StoredOf(r) == DictKeys(analysis_results[AnalysisIdOf(r)].models)

\* C2: when training one of the selected models raises, its job entry ends
\* with status "failed" and a non-null error, no result is stored for it, and
\* every later model of selected_models has still been trained: it ends
\* "completed" with a stored result, or "failed" if its own training raised.
C2_FailureIsLocal ==
    \A r \in Runs :
        tm_pc[r] = "done" =>
            \A k \in 1..Len(tm_request[r]) :
                TrainRaises(tm_request[r][k]) =>
                    /\ EntryOf(r, tm_request[r][k]).status = "failed"
                    /\ EntryOf(r, tm_request[r][k]).error # NoneVal
                    /\ tm_request[r][k] \notin StoredOf(r)
                    /\ \A j \in (k + 1)..Len(tm_request[r]) :
                          IF TrainRaises(tm_request[r][j])
                          THEN EntryOf(r, tm_request[r][j]).status = "failed"
                          ELSE /\ EntryOf(r, tm_request[r][j]).status = "completed"
                               /\ tm_request[r][j] \in StoredOf(r)

\* a finished run whose first model failed and whose second model completed
C2_Witness ==
    /\ tm_pc[1] = "done"
    /\ Len(tm_request[1]) = 2
    /\ TrainRaises(tm_request[1][1])
    /\ EntryOf(1, tm_request[1][1]).status = "failed"
    /\ EntryOf(1, tm_request[1][2]).status = "completed"
    /\ StoredOf(1) = {tm_request[1][2]}

\* C8 (models.py half): when train_models has returned, the overall status of
\* its analysis in training_jobs is "completed" or "failed", whatever the
\* selected models and the per-model entries the job held at the call.
C8_ReturnedRunIsTerminal ==
    \A r \in Runs :
        tm_pc[r] = "done" => training_jobs[AnalysisIdOf(r)].status \in Terminal

\* the selected names that have a stored result or a terminal status
Settled(r) ==
    {n \in Range(tm_request[r]) : n \in StoredOf(r) \/ EntryOf(r, n).status \in Terminal}

\* C9, as stated: the status of the k-th selected model does not leave its
\* initial value before the (k-1)-th selected model is "completed" or
\* "failed", and the models with a stored result or a terminal status are
\* those of a prefix of selected_models.
C9_WrittenInRequestOrder ==
    \A r \in Runs :
        tm_pc[r] # "idle" =>
            /\ \A k \in 2..Len(tm_request[r]) :
                  EntryOf(r, tm_request[r][k]).status # "pending" =>
                     EntryOf(r, tm_request[r][k - 1]).status \in Terminal
            /\ \E j \in 0..Len(tm_request[r]) :
                  Settled(r) = Range(SubSeq(tm_request[r], 1, j))

NoRepeats(q) == \A i, j \in 1..Len(q) : i # j => q[i] # q[j]

\* C9, amended: the same for a selected_models list that names no model twice.
C9_WrittenInRequestOrderNoRepeats ==
    \A r \in Runs :
        (tm_pc[r] # "idle" /\ NoRepeats(tm_request[r])) =>
            /\ \A k \in 2..Len(tm_request[r]) :
                  EntryOf(r, tm_request[r][k]).status # "pending" =>
                     EntryOf(r, tm_request[r][k - 1]).status \in Terminal
            /\ \E j \in 0..Len(tm_request[r]) :
                  Settled(r) = Range(SubSeq(tm_request[r], 1, j))

\* the second of two different models is in training after the first settled
C9_Witness ==
    /\ tm_pc[1] = "sleep"
    /\ tm_k[1] = 2
    /\ tm_request[1][1] # tm_request[1][2]
    /\ EntryOf(1, tm_request[1][1]).status \in Terminal
    /\ EntryOf(1, tm_request[1][2]).status = "training"
    /\ Settled(1) = {tm_request[1][1]}

\* What a run of train_models produces when nothing else runs: the entry of
\* each selected model, the overall status, and the stored results.
SoloEntry(n) ==
    IF TrainRaises(n)
    THEN [status |-> "failed", progress |-> 100, error |-> TrainError(n)]
    ELSE [status |-> "completed", progress |-> 100, error |-> NoneVal]

SoloJob(r) ==
    LET ms == [n \in DOMAIN tm_job0[r].models |->
                  IF n \in Range(tm_request[r]) THEN SoloEntry(n)
                  ELSE tm_job0[r].models[n]]
    IN  [status |-> IF \A n \in DOMAIN ms : ms[n].status \in Terminal
                    THEN "completed" ELSE "training",
         error |-> tm_job0[r].error,
         models |-> ms]

\* positions of selected_models that succeed and whose name did not occur before
SoloStored(r) ==
    LET q == tm_request[r]
        firsts == SelectSeq([i \in 1..Len(q) |-> i],
                            LAMBDA i : /\ ~TrainRaises(q[i])
                                       /\ \A h \in 1..(i - 1) : q[h] # q[i])
    IN  [i \in 1..Len(firsts) |-> TrainResult(q[firsts[i]])]

\* C10: when runs for two different analyses interleave at their sleeps, each
\* touches only the entries of its own analysis: before a run starts its
\* entries are as its caller left them, and once it has returned its job
\* (statuses, progress, errors) and stored models are what the run produces
\* alone, whatever the other run has done meanwhile.
C10_RunsAreIndependent ==
    \A r \in Runs :
        /\ tm_pc[r] \in {"idle", "call"} =>
              /\ training_jobs[AnalysisIdOf(r)] = tm_job0[r]
              /\ analysis_results[AnalysisIdOf(r)] = NoResults
        /\ tm_pc[r] = "done" =>
              /\ training_jobs[AnalysisIdOf(r)] = SoloJob(r)
              /\ analysis_results[AnalysisIdOf(r)] =
                    [present |-> TRUE, models |-> SoloStored(r)]

\* both runs have returned; one stored a result, the other recorded a failure
C10_Witness ==
    /\ tm_pc[1] = "done" /\ tm_pc[2] = "done"
    /\ tm_request[1] # << >> /\ tm_request[2] # << >>
    /\ tm_request[1] # tm_request[2]
    /\ StoredOf(1) # {}
    /\ \E n \in Range(tm_request[2]) : EntryOf(2, n).status = "failed"
    /\ training_jobs["a1"] = SoloJob(1)
    /\ training_jobs["a2"] = SoloJob(2)

\* C3: a failure while training one model of a task is recorded for that
\* model only: the task's results stay available to pollers and hold an entry
\* for every other model of the batch, those trained before the failure (not
\* discarded) and those after it (not aborted).
C3_FailureKeepsSiblingResults ==
    \A t \in DOMAIN training_tasks :
        (/\ tk_pc[t] = "done"
         /\ training_tasks[t].error = ModelError
         /\ Len(tk_input[t].model_names) >= 2) =>
            /\ ~training_tasks[t].results.none
            /\ \A k \in 1..Len(tk_input[t].model_names) :
                  k # tk_i[t] + 1 =>
                     \E h \in 1..Len(training_tasks[t].results.items) :
                        training_tasks[t].results.items[h].modelName =
                           tk_input[t].model_names[k]

\* C7: every task's status is "training", "completed" or "failed"; a task
\* enters the registry with status "training" and stays in it; once its status
\* is "completed" or "failed" no step changes it (so it changes at most once).
C7_StatusLifecycle ==
    /\ [](\A t \in DOMAIN training_tasks :
             training_tasks[t].status \in {"training", "completed", "failed"})
    /\ [][\A t \in TaskIds :
             /\ t \in DOMAIN training_tasks => t \in DOMAIN training_tasks'
             /\ (t \notin DOMAIN training_tasks /\ t \in DOMAIN training_tasks') =>
                   training_tasks'[t].status = "training"
             /\ (t \in DOMAIN training_tasks /\ training_tasks[t].status \in Terminal) =>
                   training_tasks'[t].status = training_tasks[t].status]_vars

\* one task has completed and another has failed
C7_Witness ==
    \E t, u \in DOMAIN training_tasks :
        /\ training_tasks[t].status = "completed"
        /\ training_tasks[u].status = "failed"

\* C8 (main.py half): under fair scheduling of the background task, a task
\* started by train_models_async eventually has status "completed" or "failed".
C8_TaskEventuallyTerminal ==
    \A t \in TaskIds :
        [](t \in DOMAIN training_tasks =>
              <>(t \in DOMAIN training_tasks /\ training_tasks[t].status \in Terminal))

\* the analysis_id of the call is not a key of analysis_results
UnknownAnalysis == ~analysis_results[ex_call.analysis_id].present

\* C11: run_backtest, generate_forecast, export_csv and export_json each
\* raise an error when the given analysis_id is not a key of
\* analysis_results; the call then returns no result and leaves
\* analysis_results as it was.
C11_UnknownAnalysisIsAnError ==
    /\ [](UnknownAnalysis =>
            /\ (ex_call.op = "run_backtest" /\ bt_pc # "call") =>
                  /\ bt_pc = "raised"
                  /\ bt_error = "ValueError"
                  /\ bt_response = NoneVal
                  /\ backtest_results = << >>
            /\ (ex_call.op \in {"generate_forecast", "export_csv", "export_json"}
                  /\ ex_pc # "call") =>
                  /\ ex_pc = "raised"
                  /\ ex_error = "ValueError"
                  /\ ex_response = NoResult)
    /\ [][UnknownAnalysis => analysis_results' = analysis_results]_vars

\* export_json was called for an analysis that is not stored, while another
\* analysis is, and raised
C11_Witness ==
    /\ ex_call.op = "export_json"
    /\ UnknownAnalysis
    /\ \E a \in AnalysisIds : analysis_results[a].present
    /\ ex_pc = "raised"

\* C12: polling the status or the results endpoint with a task id that is
\* not in the registry gives the caller the not-found outcome 404, which is
\* neither the 400 of a task that is not completed nor the 500 of a server
\* failure.  (The registry only grows, so an id that is unknown now was
\* unknown when it was polled.)
C12_UnknownTaskIsNotFound ==
    (http.op \in {"status", "results"} /\ http.task_id \notin DOMAIN training_tasks) =>
        /\ http.code = 404
        /\ http.code \notin {400, 500}

\* the last call was answered from the cache
ServedFromCache == sd_response.op = "fetch" /\ sd_response.provider = "none"

\* C13: fetch_stock_data never serves a cache entry whose age is 300 seconds
\* or more, ages of more than a day included: such a key is a miss.  (A hit
\* leaves the cache as it is, so the entry of the key still carries the
\* timestamp the call saw.)
C13_ExpiredEntryIsNotServed ==
    ServedFromCache =>
        sd_response.at - cache[sd_response.key].timestamp < cache_ttl

\* C14: when fetch_stock_data is called with a key whose cache entry is
\* younger than the TTL, it returns the very object stored in the entry,
\* does not call the provider, and leaves the cache, entries and timestamps,
\* as it was.  (A step that leaves the clock alone and changes anything is a
\* call; sd_response' holds its key.)
C14_ValidEntryIsServedUntouched ==
    [][(/\ now' = now
        /\ cache[sd_response'.key].present
        /\ now - cache[sd_response'.key].timestamp < cache_ttl)
       => /\ sd_response'.raised = NoneVal
          /\ sd_response'.result = cache[sd_response'.key].data
          /\ provider_calls' = provider_calls
          /\ cache' = cache]_vars

\* an entry written earlier is served 299 seconds later, after one provider
\* call in all
C14_Witness ==
    /\ ServedFromCache
    /\ sd_response.at - cache[sd_response.key].timestamp = 299
    /\ sd_response.result = cache[sd_response.key].data
    /\ provider_calls = 1

\* C15: a call of fetch_stock_data that is served from the cache receives a
\* result that was fetched with the same four arguments: its ticker, start
\* date, end date and interval are the ones the call asked for.
C15_ServedEntryHasTheCallsArguments ==
    ServedFromCache =>
        /\ sd_response.result.ticker = sd_response.call.ticker
        /\ sd_response.result.metadata.start_date = sd_response.call.start_date
        /\ sd_response.result.metadata.end_date = sd_response.call.end_date
        /\ sd_response.result.metadata.interval = sd_response.call.interval

\* C16: when the provider reports an empty history, fetch_stock_data raises
\* to its caller, returns nothing and writes nothing to the cache: the cache
\* after the call equals the cache before it, and the key is still a miss,
\* so that the same call made again queries the provider again.
C16_EmptyHistoryRaisesAndCachesNothing ==
    [][(now' = now /\ sd_response'.provider = "empty")
       => /\ sd_response'.raised = "ValueError"
          /\ sd_response'.result = NoObject
          /\ cache' = cache
          /\ ~(_is_cached(sd_response.key))']_vars

\* the provider reported an empty history for a key that another call had
\* cached more than 300 seconds earlier; the old entry is still there
C16_Witness ==
    /\ sd_response.op = "fetch"
    /\ sd_response.provider = "empty"
    /\ sd_response.raised = "ValueError"
    /\ cache[sd_response.key].present
    /\ provider_calls = 2

\* the names of the features of a result, in order
NamesOf(features) == [i \in 1..Len(features) |-> features[i].name]

\* the features generate_features is asked for (the list it iterates)
RequestedFeatures ==
    IF fe_input.preset = "custom" THEN fe_input.selected_features
    ELSE IF fe_input.preset \in DOMAIN feature_presets
    THEN feature_presets[fe_input.preset]
    ELSE << >>

\* C17: generate_features with preset "custom" and a non-empty series does
\* not raise, whatever unknown names the request holds; it skips them, and
\* the features it returns are exactly the recognized names of the request,
\* in request order.
C17_ReturnsExactlyTheRecognizedNames ==
    (gf_response.kind # "none" /\ fe_input.preset = "custom" /\ fe_input.data # << >>) =>
        /\ gf_response.kind = "returned"
        /\ NamesOf(gf_response.features) =
              SelectSeq(fe_input.selected_features, LAMBDA f : f \in KnownFeatures)

\* C18: engineer_features of main.py does not raise on an unknown feature
\* name: when selected_features holds a name that is not a column of the
\* computed table (and the series has a date and every OHLCV column), the
\* call returns the recognized features and a correlation matrix over them.
C18_UnknownNameDoesNotRaise ==
    LET columns == EngineeredColumns(fe_input.data, fe_input.preset,
                                     fe_input.selected_features)
        recognized == SelectSeq(fe_input.selected_features, LAMBDA f : f \in columns)
    IN  (/\ ef_response.kind # "none"
         /\ ColumnsOf(fe_input.data) = OHLCV \cup {"date"}
         /\ \E i \in 1..Len(fe_input.selected_features) :
               fe_input.selected_features[i] \notin columns) =>
            /\ ef_response.kind = "returned"
            /\ NamesOf(ef_response.features) = recognized
            /\ ef_response.correlationMatrix.columns = recognized

\* C19: generate_features raises, and returns no feature table, whenever the
\* series is empty or lacks an OHLCV column that a requested feature reads.
C19_EmptyOrIncompleteSeriesIsAnError ==
    (/\ gf_response.kind # "none"
     /\ \/ fe_input.data = << >>
        \/ \E i \in 1..Len(RequestedFeatures) :
              ~(NeededColumns(RequestedFeatures[i]) \subseteq ColumnsOf(fe_input.data))) =>
        gf_response.kind = "raised"

\* a returned feature column lines up with the input series: one value per
\* record; "close" holds the closes; sma_20 is NaN in the first 19 rows and
\* the mean of the last 20 closes from row 20 on (rows are counted from 1)
AlignedWithInput(feature) ==
    LET closes == IntsOf(fe_input.data, "close")
    IN  /\ Len(feature.values) = Len(fe_input.data)
        /\ feature.name = "close" =>
              \A i \in 1..Len(closes) : feature.values[i] = Num(closes[i], 1)
        /\ feature.name = "sma_20" =>
              \A i \in 1..Len(closes) :
                 IF i < 20 THEN feature.values[i].nan
                 ELSE /\ ~feature.values[i].nan
                      /\ feature.values[i].num * 20 =
                            feature.values[i].den * SumRange(closes, i - 19, i)
        /\ (/\ feature.name = "sma_20"
            /\ Len(closes) = 60
            /\ \A i \in 1..60 : closes[i] = 99 + i) =>
              feature.values[60].num * 2 = feature.values[60].den * 299

\* C20: every feature column either engine returns has the length and the
\* order of the input series ("close" equals the closes element by
\* element), and a rolling feature is undefined exactly in the leading rows
\* without enough history, which are neither dropped nor filled: sma_20 is
\* undefined at indices below 19 and is the mean of closes[i-19..i] from 19
\* on, 149.5 at index 59 for the closes 100..159.
C20_FeatureColumnsAreAligned ==
    /\ gf_response.kind = "returned" =>
          \A k \in 1..Len(gf_response.features) :
             AlignedWithInput(gf_response.features[k])
    /\ ef_response.kind = "returned" =>
          \A k \in 1..Len(ef_response.features) :
             AlignedWithInput(ef_response.features[k])

\* whether a correlation coefficient is 1.0, and whether it lies in [-1, 1]
IsOne(r) == ~r.nan /\ r.sign = 1 /\ r.num = r.den
InUnitRange(r) == ~r.nan /\ r.num <= r.den

\* C21: for every feature table produced by generate_features, including
\* tables with constant-valued columns such as the placeholder macro and
\* fundamental features, the returned correlation matrix is symmetric, has
\* 1.0 in every diagonal entry, and has no entry outside [-1, 1].
C21_CorrelationMatrixIsWellFormed ==
    gf_response.kind = "returned" =>
        LET m == gf_response.correlation_matrix
        IN  \A i \in 1..Len(m) :
               /\ IsOne(m[i][i])
               /\ \A j \in 1..Len(m) : m[i][j] = m[j][i] /\ InUnitRange(m[i][j])

\* the matrix has one row and one column per feature of the response, in the
\* order of "features"
MatrixFollowsFeatures(response) ==
    LET m == response.correlation_matrix
        f == response.features
    IN  /\ Len(m) = Len(f)
        /\ \A i \in 1..Len(m) :
              /\ Len(m[i]) = Len(f)
              /\ \A j \in 1..Len(f) :
                    m[i][j] = FillNa(Pearson(f[i].values, f[j].values))

\* C22: in every generate_features response the correlation matrix is square
\* with one row and one column per feature in "features", in the same order,
\* and the label list returned alongside it ("selected_features") has the
\* same length and order as the matrix rows, also when some requested names
\* were skipped.
C22_MatrixAndLabelsAgree ==
    gf_response.kind = "returned" =>
        /\ MatrixFollowsFeatures(gf_response)
        /\ Len(gf_response.selected_features) = Len(gf_response.correlation_matrix)
        /\ \A i \in 1..Len(gf_response.selected_features) :
              gf_response.selected_features[i] = gf_response.features[i].name

\* the importance the response reports for a feature
ImportanceIn(response, feature) ==
    {response.feature_importance[k].importance :
        k \in {i \in 1..Len(response.feature_importance) :
                  response.feature_importance[i].feature = feature}}

\* C23: calling generate_features twice with the same series, preset and
\* feature list yields the same feature names, values, descriptions and
\* correlation matrix, and the same importance for every feature in the
\* static lookup table; only the importance of features outside the lookup
\* table may differ between the two calls.
C23_SecondCallGivesTheSameTable ==
    gf_earlier # NoOutcome =>
        /\ gf_response.kind = gf_earlier.kind
        /\ gf_response.kind = "returned" =>
              /\ gf_response.features = gf_earlier.features
              /\ gf_response.correlation_matrix = gf_earlier.correlation_matrix
              /\ gf_response.selected_features = gf_earlier.selected_features
              /\ \A k \in 1..Len(gf_response.features) :
                    LET feature == gf_response.features[k].name
                    IN  /\ Cardinality(ImportanceIn(gf_response, feature)) = 1
                        /\ feature \in DOMAIN importance_scores =>
                              ImportanceIn(gf_response, feature) =
                                  ImportanceIn(gf_earlier, feature)

\* two calls returned a table that holds a feature of the lookup table and
\* one outside it, and the importance of the latter differs
C23_Witness ==
    /\ gf_earlier.kind = "returned"
    /\ gf_response.kind = "returned"
    /\ \E i, j \in 1..Len(gf_response.features) :
          /\ gf_response.features[i].name \in DOMAIN importance_scores
          /\ gf_response.features[j].name \notin DOMAIN importance_scores
          /\ ImportanceIn(gf_response, gf_response.features[j].name) #
                 ImportanceIn(gf_earlier, gf_response.features[j].name)
    /\ gf_response.feature_importance # gf_earlier.feature_importance

SyntheticMarkers == {"synthetic", "is_synthetic", "mock", "simulated", "placeholder"}
HasSyntheticMarker(payload) == DOMAIN payload \cap SyntheticMarkers # {}

\* C25: every backtest result that run_backtest computes from the synthetic
\* generator carries an explicit marker in the returned payload that
\* identifies it as synthetic, so no synthetic result is returned in the same
\* shape as a real evaluation.
C25_SyntheticResultsAreMarked ==
    bt_pc = "returned" =>
        \A k \in 1..Len(bt_response.backtest_results) :
           \/ HasSyntheticMarker(bt_response.backtest_results[k])
           \/ HasSyntheticMarker(bt_response)

\* C26: within one run_backtest call every model of the analysis receives
\* the same metric values and the same rolling-accuracy trend, because the
\* synthetic generator is reseeded with the same fixed seed for each model
\* and never reads the model name; consequently best_model is always the
\* first model in the iteration order of the analysis's models.
C26_EveryModelGetsTheSameNumbers ==
    /\ \A i, j \in 1..Len(backtest_results) :
          /\ backtest_results[i].metrics = backtest_results[j].metrics
          /\ backtest_results[i].rolling_accuracy = backtest_results[j].rolling_accuracy
    /\ (bt_pc = "returned" /\ bt_models # << >>) =>
          bt_response.overall_stats.best_model = bt_models[1]

\* a run over two models returned; both report mape and at least one
\* rolling window, and the first of them is the best model
C26_Witness ==
    /\ bt_pc = "returned"
    /\ Len(bt_response.backtest_results) = 2
    /\ HasMape(bt_response.backtest_results[2])
    /\ bt_response.backtest_results[2].metrics["mape"] > 0
    /\ bt_response.backtest_results[2].rolling_accuracy # << >>
    /\ bt_response.backtest_results[1].model_name # bt_response.backtest_results[2].model_name
    /\ bt_response.overall_stats.best_model = bt_models[1]

\* the backtest_results of a run of the same analysis, period and metrics
\* with the arguments w and h for rolling_window and forecast_horizon
ResultsWith(w, h) ==
    [k \in 1..Len(bt_models) |->
        _backtest_model(bt_models[k], _parse_period(bt_args.period),
                        _parse_period(w), _parse_period(h), bt_args.metrics)]

\* C27: the backtest_results and overall_stats returned by run_backtest do
\* not depend on the rolling_window and forecast_horizon arguments: two calls
\* that differ only in those two arguments produce the same per-model metrics
\* and the same 7-period rolling-accuracy windows; the two arguments are only
\* echoed back under "parameters".
C27_WindowAndHorizonAreOnlyEchoed ==
    bt_pc = "returned" =>
        /\ \A w, h \in WindowArgs \cup {"1 Day"} :
              LET other == SubSeq(ResultsWith(w, h), 1, Len(bt_models))
              IN  /\ bt_response.backtest_results = other
                  /\ bt_response.overall_stats = _calculate_overall_stats(other)
        /\ \A k \in 1..Len(bt_response.backtest_results) :
              Len(bt_response.backtest_results[k].rolling_accuracy) =
                  Len(PyRange(7, bt_response.backtest_results[k].total_predictions, 7))
        /\ bt_response.parameters.rolling_window = bt_args.rolling_window
        /\ bt_response.parameters.forecast_horizon = bt_args.forecast_horizon

\* a run with a 30-day rolling window and a 7-day horizon returned results
\* with several 7-pair windows
C27_Witness ==
    /\ bt_pc = "returned"
    /\ bt_args.rolling_window = "30 Days"
    /\ bt_args.forecast_horizon = "7 Days"
    /\ bt_response.backtest_results # << >>
    /\ Len(bt_response.backtest_results[1].rolling_accuracy) > 1
    /\ bt_response.backtest_results[1].metrics # << >>

\* C28: the registry entry of a task exists before its task id is returned:
\* from the moment train_models_async returns a task id, every
\* get_training_status call for that id finds the task (never not-found),
\* whether the background training has started, is finished, or has failed.
C28_ReturnedTaskIsAlwaysFound ==
    /\ \A t \in TaskIds : tk_pc[t] # "none" => t \in DOMAIN training_tasks
    /\ http.op = "train" => http.task_id \in DOMAIN training_tasks
    /\ (http.op = "status" /\ tk_pc[http.task_id] # "none") => http.raised = 0

\* a task was polled and found before the event loop had started its training,
\* while an earlier task had already failed
C28_Witness ==
    /\ http.op = "status"
    /\ http.raised = 0
    /\ tk_pc[http.task_id] = "scheduled"
    /\ \E u \in DOMAIN training_tasks : training_tasks[u].status = "failed"

\* C29: get_training_results returns a task's results only when the task's
\* status is "completed"; in every reachable registry state a task has
\* non-null results if and only if its status is "completed" (then with
\* progress 100), and a task has a non-null error only if its status is
\* "failed".
C29_ResultsOnlyWhenCompleted ==
    /\ \A t \in DOMAIN training_tasks :
          /\ ~training_tasks[t].results.none <=> training_tasks[t].status = "completed"
          /\ training_tasks[t].status = "completed" =>
                training_tasks[t].progress = Frac(100, 1)
          /\ training_tasks[t].error # NoneVal => training_tasks[t].status = "failed"
    /\ (http.op = "results" /\ http.raised = 0) =>
          /\ training_tasks[http.task_id].status = "completed"
          /\ ~training_tasks[http.task_id].results.none

\* the results of a completed task were returned, a poll of the results of a
\* failed task having been refused before
C29_Witness ==
    /\ http.op = "results"
    /\ http.raised = 0
    /\ training_tasks[http.task_id].results.items # << >>
    /\ \E u \in DOMAIN training_tasks :
          /\ training_tasks[u].status = "failed"
          /\ training_tasks[u].error # NoneVal
          /\ training_tasks[u].results.none

\* a <= b for two quotients of integers with positive denominators
FracLeq(a, b) == a.num * b.den <= b.num * a.den

\* every progress value is within 0..100, and 100 where the status is
\* "completed"
ProgressInRange ==
    /\ \A a \in AnalysisIds : \A n \in DOMAIN training_jobs[a].models :
          /\ training_jobs[a].models[n].progress \in 0..100
          /\ training_jobs[a].models[n].status = "completed" =>
                training_jobs[a].models[n].progress = 100
    /\ \A t \in DOMAIN training_tasks :
          /\ FracLeq(Frac(0, 1), training_tasks[t].progress)
          /\ FracLeq(training_tasks[t].progress, Frac(100, 1))
          /\ training_tasks[t].status = "completed" =>
                training_tasks[t].progress = Frac(100, 1)

\* no step lowers the progress of the entry of model n of run r once its
\* training has started
EntryProgressKept(r, n) ==
    training_jobs[JobKey(r)].models[n].status # "pending" =>
        training_jobs'[JobKey(r)].models[n].progress >=
            training_jobs[JobKey(r)].models[n].progress

\* no step lowers the progress of a task
TaskProgressKept ==
    \A t \in DOMAIN training_tasks :
        FracLeq(training_tasks[t].progress, training_tasks'[t].progress)

\* C30, as stated: training progress never goes backwards and stays within
\* 0..100: during train_models the progress of each model's job entry is
\* non-decreasing from the moment its training starts, a model with status
\* "completed" has progress 100, and in _train_models of main.py the task
\* progress is non-decreasing over the model loop and is 100 when the status
\* is "completed".
C30_ProgressNeverGoesBack ==
    /\ []ProgressInRange
    /\ [][/\ \A r \in Runs : \A n \in DOMAIN training_jobs[JobKey(r)].models :
                EntryProgressKept(r, n)
          /\ TaskProgressKept]_vars

\* C30, amended: the same, for the job entries of a run whose selected_models
\* names no model twice.
C30_ProgressNeverGoesBackNoRepeats ==
    /\ []ProgressInRange
    /\ [][/\ \A r \in Runs :
                NoRepeats(tm_request[r]) =>
                   \A n \in DOMAIN training_jobs[JobKey(r)].models :
                      EntryProgressKept(r, n)
          /\ TaskProgressKept]_vars

\* the second of two different models is half way through its training, the
\* first having completed with progress 100
C30_Witness ==
    /\ tm_pc[1] = "sleep"
    /\ tm_k[1] = 2
    /\ NoRepeats(tm_request[1])
    /\ EntryOf(1, tm_request[1][1]).status = "completed"
    /\ EntryOf(1, tm_request[1][1]).progress = 100
    /\ EntryOf(1, tm_request[1][2]).status = "training"
    /\ EntryOf(1, tm_request[1][2]).progress = 60

====
